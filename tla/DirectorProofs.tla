--------------------------- MODULE DirectorProofs ---------------------------
(* Theorems about DirectorLoop, for every value of its constants; and one about the migrations that *)
(* a director, like every process, goes through before its first round.                            *)
EXTENDS DirectorLoop, Schema, FiniteSetTheorems, TLAPS

-----------------------------------------------------------------------------
(* The inductive invariant *)

\* Who is at a turn that needs the lock has it, and its time is not up.
Holder == \A d \in Directors : pc[d] \in Locked => lock.by = d /\ ~lock.late

\* A round has made its row before its first check.
RowThere == \A d \in Directors : pc[d] \notin {"down", "idle"} => budget.known

\* The streak is what has failed in a row.  A tick is only begun below the limit.
Counted ==
  /\ failed = budget.streak
  /\ overruns = 0 =>
       /\ budget.streak <= Limit
       /\ \A d \in Directors : pc[d] = "tick" => budget.streak < Limit

\* The row's sum has seen what the ticks of today cost, and digests besides.  A tick that
\* began today began below the cap, and the row has been rolled over since midnight.
Recorded ==
  /\ ~budget.rolled => spent = 0
  /\ spent <= budget.think \/ budget.think = ThinkCap
  /\ \A d \in Directors : pc[d] = "tick" /\ today[d] => budget.rolled
  /\ overruns = 0 =>
       /\ spent <= ThinkCap - 1 + CallCost
       /\ \A d \in Directors : pc[d] = "tick" /\ today[d] => spent <= ThinkCap - 1

IInv == TypeOK /\ (overruns = 0 => Holder) /\ RowThere /\ Counted /\ Recorded

-----------------------------------------------------------------------------
(* What the statements on the row do to the fields that the invariant is about *)

LEMMA RolledOver ==
  ASSUME NEW b \in BudgetRow
  PROVE  /\ rolloverDayIfNeeded(b) \in BudgetRow
         /\ rolloverDayIfNeeded(b).known = b.known
         /\ rolloverDayIfNeeded(b).streak = b.streak
         /\ b.known => rolloverDayIfNeeded(b).rolled
         /\ b.rolled => rolloverDayIfNeeded(b).rolled
         /\ b.rolled \/ ~b.known => rolloverDayIfNeeded(b).think = b.think
         /\ ~b.known => rolloverDayIfNeeded(b) = b
<1> USE DirectorLoopConstants DEF BudgetRow
<1>1. CASE ~b.known
  BY <1>1 DEF rolloverDayIfNeeded
<1>2. CASE b.known
  <2> DEFINE c == [b EXCEPT !.think = IF b.rolled THEN @ ELSE 0, !.rolled = TRUE]
  <2>1. rolloverDayIfNeeded(b) = c
    BY <1>2 DEF rolloverDayIfNeeded
  <2>2. c \in BudgetRow
    <3>1. (IF b.rolled THEN b.think ELSE 0) \in 0 .. ThinkCap
      OBVIOUS
    <3>2. \A n \in 0 .. ThinkCap : [b EXCEPT !.think = n, !.rolled = TRUE] \in BudgetRow
      OBVIOUS
    <3> QED BY <3>1, <3>2
  <2>3. c.known = b.known /\ c.streak = b.streak /\ c.rolled = TRUE
    OBVIOUS
  <2>4. b.rolled => c.think = b.think
    OBVIOUS
  <2> HIDE DEF c
  <2> QED BY <1>2, <2>1, <2>2, <2>3, <2>4
<1> QED BY <1>1, <1>2

\* The other fields are not what the invariant is about.
LEMMA FlagSet ==
  ASSUME NEW b \in BudgetRow, NEW v \in BOOLEAN,
         NEW c \in {[b EXCEPT !.ticked = v], [b EXCEPT !.digested = v],
                   [b EXCEPT !.backoff = v], [b EXCEPT !.paused = v]}
  PROVE  /\ c \in BudgetRow /\ c.known = b.known /\ c.streak = b.streak
         /\ c.rolled = b.rolled /\ c.think = b.think
BY DEF BudgetRow

LEMMA Ensured ==
  ASSUME NEW b \in BudgetRow
  PROVE  /\ ensureBudgetState(b) \in BudgetRow /\ ensureBudgetState(b).known
         /\ ensureBudgetState(b).streak = b.streak /\ ensureBudgetState(b).think = b.think
         /\ ensureBudgetState(b).rolled = b.rolled
BY DEF ensureBudgetState, BudgetRow

\* The sum grows by the cost, up to the cap.
LEMMA ThinkSpent ==
  ASSUME NEW b \in BudgetRow, NEW cost \in Nat
  PROVE  /\ recordThinkSpend(b, cost) \in BudgetRow
         /\ recordThinkSpend(b, cost).known = b.known
         /\ recordThinkSpend(b, cost).streak = b.streak
         /\ recordThinkSpend(b, cost).rolled = b.rolled
         /\ \/ recordThinkSpend(b, cost).think = b.think + cost
            \/ recordThinkSpend(b, cost).think = ThinkCap
         /\ \A c \in Nat : (c <= b.think \/ b.think = ThinkCap)
                             => \/ c + cost <= recordThinkSpend(b, cost).think
                                \/ recordThinkSpend(b, cost).think = ThinkCap
BY DirectorLoopConstants DEF recordThinkSpend, BudgetRow

LEMMA WithStreak ==
  ASSUME NEW b \in BudgetRow, NEW n \in Nat
  PROVE  LET c == [b EXCEPT !.streak = n]
         IN /\ c \in BudgetRow /\ c.streak = n
            /\ c.known = b.known /\ c.rolled = b.rolled /\ c.think = b.think
BY DEF BudgetRow

LEMMA MarkedTick ==
  ASSUME NEW b \in BudgetRow
  PROVE  /\ markTick(b) \in BudgetRow /\ markTick(b).streak = b.streak
         /\ markTick(b).known = b.known /\ markTick(b).rolled = b.rolled
         /\ markTick(b).think = b.think
BY DEF markTick, BudgetRow

LEMMA Failed ==
  ASSUME NEW b \in BudgetRow
  PROVE  /\ markFailure(b) \in BudgetRow /\ markFailure(b).streak = b.streak + 1
         /\ markFailure(b).known = b.known /\ markFailure(b).rolled = b.rolled
         /\ markFailure(b).think = b.think
<1>1. b.streak + 1 \in Nat
  BY DEF BudgetRow
<1>2. markFailure(b) = [markTick(b) EXCEPT !.streak = b.streak + 1]
  BY MarkedTick DEF markFailure
<1> QED BY <1>1, <1>2, MarkedTick, WithStreak

LEMMA Succeeded ==
  ASSUME NEW b \in BudgetRow
  PROVE  /\ markSuccess(b) \in BudgetRow /\ markSuccess(b).streak = 0
         /\ markSuccess(b).known = b.known /\ markSuccess(b).rolled = b.rolled
         /\ markSuccess(b).think = b.think
BY MarkedTick, WithStreak DEF markSuccess

\* A digest leaves the streak and the day alone, and can only add to the sum.
LEMMA Digested ==
  ASSUME NEW begunToday \in BOOLEAN, budget \in BudgetRow, waiting \in BOOLEAN,
         EndDigest(begunToday)
  PROVE  /\ budget' \in BudgetRow /\ waiting' \in BOOLEAN
         /\ budget'.known = budget.known /\ budget'.streak = budget.streak
         /\ budget'.rolled = budget.rolled
         /\ budget'.think >= budget.think
<1>1. \A b \in BudgetRow :
        \A c \in {recordDigestFired(b, begunToday), recordDigestFailure(b)} :
          /\ c \in BudgetRow /\ c.known = b.known /\ c.streak = b.streak
          /\ c.rolled = b.rolled /\ c.think = b.think
  BY ZenonT(30) DEF recordDigestFired, recordDigestFailure, BudgetRow
<1>2. ASSUME NEW cost \in 0 .. CallCost
      PROVE  /\ recordThinkSpend(budget, cost) \in BudgetRow
             /\ recordThinkSpend(budget, cost).known = budget.known
             /\ recordThinkSpend(budget, cost).streak = budget.streak
             /\ recordThinkSpend(budget, cost).rolled = budget.rolled
             /\ recordThinkSpend(budget, cost).think >= budget.think
  <2>1. cost \in Nat
    BY DirectorLoopConstants
  <2>2. budget.think \in 0 .. ThinkCap
    BY DEF BudgetRow
  <2> DEFINE t == recordThinkSpend(budget, cost).think
  <2>3. t = budget.think + cost \/ t = ThinkCap
    BY <2>1, ThinkSpent
  <2>4. t >= budget.think
    <3> HIDE DEF t
    <3> QED BY <2>1, <2>2, <2>3, DirectorLoopConstants
  <2> QED BY <2>1, <2>4, ThinkSpent
<1>3. CASE \E cost \in 0 .. CallCost :
             budget' = recordDigestFired(recordThinkSpend(budget, cost), begunToday) /\ waiting' = FALSE
  <2>1. PICK cost \in 0 .. CallCost :
          budget' = recordDigestFired(recordThinkSpend(budget, cost), begunToday) /\ waiting' = FALSE
    BY <1>3
  <2> DEFINE b == recordThinkSpend(budget, cost)
  <2>2. b \in BudgetRow /\ b.known = budget.known /\ b.streak = budget.streak
        /\ b.rolled = budget.rolled /\ b.think >= budget.think
    BY <1>2
  <2>3. budget' = recordDigestFired(b, begunToday) /\ waiting' \in BOOLEAN
    BY <2>1
  <2> HIDE DEF b
  <2>4. /\ budget' \in BudgetRow /\ budget'.known = b.known /\ budget'.streak = b.streak
        /\ budget'.rolled = b.rolled /\ budget'.think = b.think
    BY <1>1, <2>2, <2>3
  <2> QED BY <2>2, <2>3, <2>4
<1>4. CASE budget' \in {recordDigestFired(budget, begunToday), recordDigestFailure(budget)}
           /\ waiting' = waiting
  <2>1. budget.think \in Nat
    BY DirectorLoopConstants DEF BudgetRow
  <2> QED BY <1>1, <1>4, <2>1
<1> QED BY <1>3, <1>4 DEF EndDigest

-----------------------------------------------------------------------------
(* Type correctness *)

LEMMA TypeInit == Init => TypeOK
<1>1. 0 \in 0 .. ThinkCap
  BY DirectorLoopConstants
<1>2. ASSUME Init PROVE budget \in BudgetRow
  BY <1>1, <1>2 DEF Init, BudgetRow
<1>3. ASSUME Init PROVE lock \in [by : Directors \cup {None}, late : BOOLEAN]
  BY <1>3 DEF Init
<1>4. ASSUME Init PROVE /\ pc \in [Directors -> Turns]
                        /\ due \in [Directors -> BOOLEAN] /\ today \in [Directors -> BOOLEAN]
  BY <1>4 DEF Init, Turns
<1>5. ASSUME Init PROVE /\ morning \in BOOLEAN /\ waiting \in BOOLEAN
                        /\ spent \in Nat /\ failed \in Nat /\ crashes \in Nat /\ overruns \in Nat
  BY <1>5 DEF Init
<1> QED BY <1>2, <1>3, <1>4, <1>5 DEF TypeOK

\* Where the round of a director goes.
LEMMA RoundGoes ==
  ASSUME TypeOK, NEW d \in Directors, NEW turn \in Turns
  PROVE  /\ Goto(d, turn) => pc' \in [Directors -> Turns]
         /\ EndRound(d) => pc' \in [Directors -> Turns] /\ due' \in [Directors -> BOOLEAN]
BY DEF TypeOK, Goto, EndRound, Turns

\* The commands leave the streak, the sum and the day alone.
LEMMA Commanded ==
  ASSUME budget \in BudgetRow, NEW cmd
  PROVE  /\ runSlashCommand(cmd) \in BudgetRow
         /\ budget.known => runSlashCommand(cmd).known
         /\ runSlashCommand(cmd).streak = budget.streak
         /\ runSlashCommand(cmd).think = budget.think
         /\ runSlashCommand(cmd).rolled = budget.rolled
<1>1. /\ Updated([budget EXCEPT !.ticked = FALSE]) \in {budget, [budget EXCEPT !.ticked = FALSE]}
      /\ \A p \in BOOLEAN : Updated([budget EXCEPT !.paused = p]) \in {budget, [budget EXCEPT !.paused = p]}
  BY DEF Updated
<1>2. runSlashCommand(cmd) \in {budget, ensureBudgetState(budget), [budget EXCEPT !.ticked = FALSE],
                               [budget EXCEPT !.paused = TRUE], [budget EXCEPT !.paused = FALSE]}
  BY <1>1 DEF runSlashCommand
<1>3. CASE runSlashCommand(cmd) = ensureBudgetState(budget)
  BY <1>3, Ensured
<1>4. CASE runSlashCommand(cmd) \in {budget, [budget EXCEPT !.ticked = FALSE],
                               [budget EXCEPT !.paused = TRUE], [budget EXCEPT !.paused = FALSE]}
  BY <1>4 DEF BudgetRow
<1> QED BY <1>2, <1>3, <1>4

\* What a tick adds to the spend of the day: its cost, if it began today.
LEMMA SpendAdds ==
  ASSUME spent \in Nat, NEW d \in Directors, NEW cost \in Nat, Spend(d, cost)
  PROVE  /\ spent' \in Nat
         /\ today[d] => spent' = spent + cost
         /\ ~today[d] => spent' = spent
<1>1. spent + cost \in Nat
  OBVIOUS
<1> QED BY <1>1 DEF Spend

LEMMA TypeKept == TypeOK /\ [Next]_vars => TypeOK'
<1> SUFFICES ASSUME TypeOK, [Next]_vars PROVE TypeOK'
  OBVIOUS
<1> USE DirectorLoopConstants DEF TypeOK, history
<1>0. CASE UNCHANGED vars
  BY <1>0 DEF vars
<1>1. ASSUME NEW d \in Directors, BeginRound(d) PROVE TypeOK'
  BY <1>1, RolledOver, Ensured, RoundGoes DEF BeginRound, Turns
<1>2. ASSUME NEW d \in Directors, ClaimDigest(d) PROVE TypeOK'
  <2>1. pc' \in [Directors -> Turns]
    BY <1>2, RoundGoes DEF ClaimDigest, Turns
  <2>2. lock' \in [by : Directors \cup {None}, late : BOOLEAN]
    <3>1. lock' = [by |-> d, late |-> FALSE] \/ lock' = lock
      BY <1>2 DEF ClaimDigest, Acquire
    <3>2. [by |-> d, late |-> FALSE] \in [by : Directors \cup {None}, late : BOOLEAN]
      OBVIOUS
    <3>3. lock \in [by : Directors \cup {None}, late : BOOLEAN]
      OBVIOUS
    <3> QED BY <3>1, <3>2, <3>3
  <2>3. today' \in [Directors -> BOOLEAN]
    BY <1>2 DEF ClaimDigest
  <2>4. UNCHANGED <<morning, budget, waiting, due, history>>
    BY <1>2 DEF ClaimDigest
  <2> QED BY <2>1, <2>2, <2>3, <2>4
<1>3. ASSUME NEW d \in Directors, DigestEnds(d) PROVE TypeOK'
  BY <1>3, Digested, RoundGoes DEF DigestEnds, releaseTick, Turns
<1>4. ASSUME NEW d \in Directors, NoTick(d) PROVE TypeOK'
  BY <1>4, RoundGoes DEF NoTick, maybePostTrustRampSuggestion, Turns
<1>5. ASSUME NEW d \in Directors, TickRefused(d) PROVE TypeOK'
  BY <1>5, RolledOver, RoundGoes DEF TickRefused, maybePostTrustRampSuggestion, releaseTick, Turns
<1>6. ASSUME NEW d \in Directors, NoEngine(d) PROVE TypeOK'
  <2>1. budget' \in BudgetRow
    BY <1>6, RolledOver, Failed DEF NoEngine
  <2>2. pc' \in [Directors -> Turns] /\ due' \in [Directors -> BOOLEAN]
    BY <1>6, RoundGoes DEF NoEngine, Turns
  <2>3. waiting' \in BOOLEAN
    BY <1>6 DEF NoEngine, maybePostTrustRampSuggestion
  <2>5. failed' = failed + 1
    BY <1>6 DEF NoEngine
  <2>4. lock' \in [by : Directors \cup {None}, late : BOOLEAN]
        /\ UNCHANGED <<morning, today, spent, crashes, overruns>>
    BY <1>6 DEF NoEngine, releaseTick
  <2> QED BY <2>1, <2>2, <2>3, <2>4, <2>5
<1>7. ASSUME NEW d \in Directors, StartTick(d) PROVE TypeOK'
  BY <1>7, RolledOver, RoundGoes DEF StartTick, maybePostTrustRampSuggestion, Acquire, Turns
<1>8. ASSUME NEW d \in Directors, CallFails(d) PROVE TypeOK'
  BY <1>8, Failed, RoundGoes DEF CallFails, releaseTick, Turns
<1>9. ASSUME NEW d \in Directors, AnswerInvalid(d) PROVE TypeOK'
  <2>1. PICK cost \in Nat : /\ budget' = markFailure(recordThinkSpend(budget, cost))
                            /\ Spend(d, cost)
    BY <1>9 DEF AnswerInvalid
  <2>2. budget' \in BudgetRow /\ spent' \in Nat
    BY <2>1, ThinkSpent, Failed, SpendAdds
  <2>3. pc' \in [Directors -> Turns] /\ due' \in [Directors -> BOOLEAN]
    BY <1>9, RoundGoes DEF AnswerInvalid, Turns
  <2>4. lock' \in [by : Directors \cup {None}, late : BOOLEAN] /\ today' \in [Directors -> BOOLEAN]
    BY <1>9 DEF AnswerInvalid, releaseTick
  <2>5. failed' \in Nat /\ UNCHANGED <<morning, waiting, crashes, overruns>>
    BY <1>9 DEF AnswerInvalid
  <2> QED BY <2>2, <2>3, <2>4, <2>5
<1>10. ASSUME NEW d \in Directors, Answered(d) PROVE TypeOK'
  <2>1. PICK cost \in Nat : budget' = recordThinkSpend(budget, cost) /\ Spend(d, cost)
    BY <1>10 DEF Answered
  <2>2. budget' \in BudgetRow /\ spent' \in Nat
    BY <2>1, ThinkSpent, SpendAdds
  <2>3. pc' \in [Directors -> Turns]
    BY <1>10, RoundGoes DEF Answered, Turns
  <2>4. waiting' \in BOOLEAN /\ today' \in [Directors -> BOOLEAN]
        /\ UNCHANGED <<morning, lock, due, failed, crashes, overruns>>
    BY <1>10 DEF Answered
  <2> QED BY <2>2, <2>3, <2>4
<1>11. ASSUME NEW d \in Directors, TickEnds(d) PROVE TypeOK'
  BY <1>11, Succeeded, RoundGoes DEF TickEnds, releaseTick, Turns
<1>12. ASSUME NEW d \in Directors, Restart(d) PROVE TypeOK'
  BY <1>12, RoundGoes DEF Restart, Turns
<1>13. ASSUME NEW d \in Directors, Crash(d) PROVE TypeOK'
  BY <1>13, RoundGoes DEF Crash, Turns
<1>14. CASE \E word \in Words : PostMessage(word)
  BY <1>14, Commanded DEF PostMessage
<1>15. CASE TickNow
  BY <1>15, Ensured, FlagSet DEF TickNow
<1>16. CASE SlashDigest
  BY <1>16, Digested DEF SlashDigest
<1>17. CASE UtcMidnight
  BY <1>17 DEF UtcMidnight, BudgetRow
<1>18. CASE LocalMidnight
  BY <1>18 DEF LocalMidnight, BudgetRow
<1>19. CASE DigestHour
  BY <1>19 DEF DigestHour
<1>20. CASE CadenceElapses
  BY <1>20, FlagSet DEF CadenceElapses
<1>21. CASE BackoffEnds
  BY <1>21, FlagSet DEF BackoffEnds
<1>22. CASE LockExpires
  <2>1. lock' \in [by : Directors \cup {None}, late : BOOLEAN]
    BY <1>22 DEF LockExpires
  <2>2. overruns' \in Nat /\ UNCHANGED <<morning, budget, waiting, pc, due, today, spent, failed, crashes>>
    BY <1>22 DEF LockExpires
  <2> QED BY <2>1, <2>2
<1> QED
  BY <1>0, <1>1, <1>2, <1>3, <1>4, <1>5, <1>6, <1>7, <1>8, <1>9, <1>10, <1>11, <1>12, <1>13, <1>14, <1>15,
     <1>16, <1>17, <1>18, <1>19, <1>20, <1>21, <1>22 DEF Next, Step, Tick

-----------------------------------------------------------------------------
(* The lock *)

\* Only the director that takes a step changes its turn.
LEMMA OthersStay ==
  ASSUME TypeOK, NEW d \in Directors, NEW turn \in Turns, Goto(d, turn) \/ EndRound(d)
  PROVE  /\ \A e \in Directors \ {d} : pc'[e] = pc[e]
         /\ Goto(d, turn) => pc'[d] = turn
         /\ EndRound(d) => pc'[d] = "idle"
BY DEF TypeOK, Goto, EndRound

\* Nobody else is where the lock is needed while it can be had.
LEMMA FreeLock ==
  ASSUME Holder, tryAcquireTick
  PROVE  \A d \in Directors : pc[d] \notin Locked
BY DirectorLoopConstants DEF Holder, tryAcquireTick

LEMMA HolderKept ==
  TypeOK /\ (overruns = 0 => Holder) /\ [Next]_vars => (overruns' = 0 => Holder')
<1> SUFFICES ASSUME TypeOK, overruns = 0 => Holder, [Next]_vars, overruns' = 0 PROVE Holder'
  OBVIOUS
<1> USE DirectorLoopConstants DEF history
<1>0. CASE UNCHANGED vars
  BY <1>0 DEF vars, Holder
<1>1. ASSUME NEW d \in Directors, BeginRound(d) PROVE Holder'
  BY <1>1, OthersStay DEF BeginRound, Holder, Locked, Turns
<1>2. ASSUME NEW d \in Directors, ClaimDigest(d) PROVE Holder'
  BY <1>2, OthersStay, FreeLock DEF ClaimDigest, Acquire, Holder, Locked, Turns
<1>3. ASSUME NEW d \in Directors, DigestEnds(d) PROVE Holder'
  BY <1>3, OthersStay DEF DigestEnds, Holder, Locked, Turns
<1>4. ASSUME NEW d \in Directors, NoTick(d) PROVE Holder'
  BY <1>4, OthersStay DEF NoTick, Holder, Locked, Turns
<1>5. ASSUME NEW d \in Directors, TickRefused(d) PROVE Holder'
  BY <1>5, OthersStay, FreeLock DEF TickRefused, Holder, Locked, Turns
<1>6. ASSUME NEW d \in Directors, NoEngine(d) PROVE Holder'
  BY <1>6, OthersStay, FreeLock DEF NoEngine, Holder, Locked, Turns
<1>7. ASSUME NEW d \in Directors, StartTick(d) PROVE Holder'
  BY <1>7, OthersStay, FreeLock DEF StartTick, Acquire, Holder, Locked, Turns
<1>8. ASSUME NEW d \in Directors, CallFails(d) PROVE Holder'
  BY <1>8, OthersStay DEF CallFails, Holder, Locked, Turns
<1>9. ASSUME NEW d \in Directors, AnswerInvalid(d) PROVE Holder'
  BY <1>9, OthersStay DEF AnswerInvalid, Holder, Locked, Turns
<1>10. ASSUME NEW d \in Directors, Answered(d) PROVE Holder'
  BY <1>10, OthersStay DEF Answered, Holder, Locked, Turns
<1>11. ASSUME NEW d \in Directors, TickEnds(d) PROVE Holder'
  BY <1>11, OthersStay DEF TickEnds, Holder, Locked, Turns
<1>12. ASSUME NEW d \in Directors, Restart(d) PROVE Holder'
  BY <1>12, OthersStay DEF Restart, Holder, Locked, Turns
<1>13. ASSUME NEW d \in Directors, Crash(d) PROVE Holder'
  BY <1>13, OthersStay DEF Crash, Holder, Locked, Turns
<1>14. CASE \E word \in Words : PostMessage(word)
  BY <1>14 DEF PostMessage, Holder
<1>15. CASE TickNow
  BY <1>15 DEF TickNow, Holder
<1>16. CASE SlashDigest
  BY <1>16 DEF SlashDigest, Holder
<1>17. CASE UtcMidnight
  BY <1>17 DEF UtcMidnight, Holder
<1>18. CASE LocalMidnight
  BY <1>18 DEF LocalMidnight, Holder
<1>19. CASE DigestHour
  BY <1>19 DEF DigestHour, Holder
<1>20. CASE CadenceElapses
  BY <1>20 DEF CadenceElapses, Holder
<1>21. CASE BackoffEnds
  BY <1>21 DEF BackoffEnds, Holder
<1>22. CASE LockExpires
  BY <1>22 DEF LockExpires, Holder, TypeOK
<1> QED
  BY <1>0, <1>1, <1>2, <1>3, <1>4, <1>5, <1>6, <1>7, <1>8, <1>9, <1>10, <1>11, <1>12, <1>13, <1>14, <1>15,
     <1>16, <1>17, <1>18, <1>19, <1>20, <1>21, <1>22 DEF Next, Step, Tick

-----------------------------------------------------------------------------
(* The row *)

LEMMA RowThereKept == TypeOK /\ RowThere /\ [Next]_vars => RowThere'
<1> SUFFICES ASSUME TypeOK, RowThere, [Next]_vars PROVE RowThere'
  OBVIOUS
<1> USE DirectorLoopConstants DEF history
<1>a. budget \in BudgetRow /\ waiting \in BOOLEAN
  BY DEF TypeOK
<1>b. ASSUME budget.known => budget'.known, NEW d \in Directors, pc[d] \notin {"down", "idle"},
             \A e \in Directors \ {d} : pc'[e] = pc[e]
      PROVE  RowThere'
  BY <1>b DEF RowThere
<1>c. ASSUME budget.known => budget'.known, UNCHANGED pc
      PROVE  RowThere'
  BY <1>c DEF RowThere
<1>d. \A d \in Directors : today[d] \in BOOLEAN
  BY DEF TypeOK
<1>0. CASE UNCHANGED vars
  BY <1>0, <1>c DEF vars
<1>1. ASSUME NEW d \in Directors, BeginRound(d) PROVE RowThere'
  BY <1>1, <1>a, RolledOver, Ensured, OthersStay DEF BeginRound, RowThere, Turns
<1>2. ASSUME NEW d \in Directors, ClaimDigest(d) PROVE RowThere'
  BY <1>2, <1>a, <1>b, OthersStay DEF ClaimDigest, Turns
<1>3. ASSUME NEW d \in Directors, DigestEnds(d) PROVE RowThere'
  BY <1>3, <1>a, <1>b, <1>d, Digested, OthersStay DEF DigestEnds, Turns
<1>4. ASSUME NEW d \in Directors, NoTick(d) PROVE RowThere'
  BY <1>4, <1>a, <1>b, OthersStay DEF NoTick, Turns
<1>5. ASSUME NEW d \in Directors, TickRefused(d) PROVE RowThere'
  BY <1>5, <1>a, <1>b, RolledOver, OthersStay DEF TickRefused, Turns
<1>6. ASSUME NEW d \in Directors, NoEngine(d) PROVE RowThere'
  BY <1>6, <1>a, <1>b, RolledOver, Failed, OthersStay DEF NoEngine, Turns
<1>7. ASSUME NEW d \in Directors, StartTick(d) PROVE RowThere'
  BY <1>7, <1>a, <1>b, RolledOver, OthersStay DEF StartTick, Turns
<1>8. ASSUME NEW d \in Directors, CallFails(d) PROVE RowThere'
  BY <1>8, <1>a, <1>b, Failed, OthersStay DEF CallFails, Turns
<1>9. ASSUME NEW d \in Directors, AnswerInvalid(d) PROVE RowThere'
  <2>1. PICK cost \in Nat : budget' = markFailure(recordThinkSpend(budget, cost))
    BY <1>9 DEF AnswerInvalid
  <2>2. budget'.known = budget.known
    BY <2>1, <1>a, ThinkSpent, Failed, ZenonT(30)
  <2> QED BY <2>2, <1>9, <1>b, OthersStay DEF AnswerInvalid, Turns
<1>10. ASSUME NEW d \in Directors, Answered(d) PROVE RowThere'
  <2>1. PICK cost \in Nat : budget' = recordThinkSpend(budget, cost)
    BY <1>10 DEF Answered
  <2>2. budget'.known = budget.known
    BY <2>1, <1>a, ThinkSpent
  <2> QED BY <2>2, <1>10, <1>b, OthersStay DEF Answered, Turns
<1>11. ASSUME NEW d \in Directors, TickEnds(d) PROVE RowThere'
  BY <1>11, <1>a, <1>b, Succeeded, OthersStay DEF TickEnds, Turns
<1>12. ASSUME NEW d \in Directors, Restart(d) PROVE RowThere'
  BY <1>12, OthersStay DEF Restart, RowThere, Turns
<1>13. ASSUME NEW d \in Directors, Crash(d) PROVE RowThere'
  BY <1>13, OthersStay DEF Crash, RowThere, Turns
<1>14. CASE \E word \in Words : PostMessage(word)
  BY <1>14, <1>a, <1>c, Commanded DEF PostMessage, Turns
<1>15. CASE TickNow
  BY <1>15, <1>a, <1>c, Ensured, FlagSet DEF TickNow, Turns
<1>16. CASE SlashDigest
  BY <1>16, <1>a, <1>c, Digested DEF SlashDigest, Turns
<1>17. CASE UtcMidnight
  BY <1>17, <1>a, <1>c DEF UtcMidnight, BudgetRow
<1>18. CASE LocalMidnight
  BY <1>18, <1>a, <1>c DEF LocalMidnight, BudgetRow
<1>19. CASE DigestHour
  BY <1>19, <1>a, <1>c DEF DigestHour, Turns
<1>20. CASE CadenceElapses
  BY <1>20, <1>a, <1>c, FlagSet DEF CadenceElapses
<1>21. CASE BackoffEnds
  BY <1>21, <1>a, <1>c, FlagSet DEF BackoffEnds
<1>22. CASE LockExpires
  BY <1>22, <1>a, <1>c DEF LockExpires, Turns
<1> QED
  BY <1>0, <1>1, <1>2, <1>3, <1>4, <1>5, <1>6, <1>7, <1>8, <1>9, <1>10, <1>11, <1>12, <1>13, <1>14, <1>15,
     <1>16, <1>17, <1>18, <1>19, <1>20, <1>21, <1>22 DEF Next, Step, Tick

\* At most one director is at a tick, and none while the lock can be had.
LEMMA OneAtATick ==
  ASSUME TypeOK, Holder
  PROVE  /\ \A d \in Directors, e \in Directors : pc[d] = "tick" /\ pc[e] = "tick" => d = e
         /\ tryAcquireTick => \A d \in Directors : pc[d] # "tick"
BY FreeLock DEF Holder, Locked

\* Bigger numbers only where the count is about them.
LEMMA CountedKept ==
  TypeOK /\ (overruns = 0 => Holder) /\ Counted /\ [Next]_vars => Counted'
<1> SUFFICES ASSUME TypeOK, overruns = 0 => Holder, Counted, [Next]_vars PROVE Counted'
  OBVIOUS
<1> USE DirectorLoopConstants DEF history
<1>a. budget \in BudgetRow /\ waiting \in BOOLEAN /\ overruns \in Nat
      /\ budget.streak \in Nat /\ Limit \in Nat /\ 0 < Limit
  BY DEF TypeOK, BudgetRow
<1>b. \A d \in Directors : today[d] \in BOOLEAN
  BY DEF TypeOK
\* The count stays, and nobody comes to a tick.
<1>c. ASSUME failed' = failed, budget'.streak = budget.streak, overruns' = 0 => overruns = 0,
             \A e \in Directors : pc'[e] = "tick" => pc[e] = "tick"
      PROVE  Counted'
  BY <1>c DEF Counted
\* One more failure, of a tick that was begun below the limit, and no other is at work.
<1>d. ASSUME failed' = failed + 1, budget'.streak = budget.streak + 1, overruns' = overruns,
             overruns = 0 => budget.streak < Limit /\ \A e \in Directors : pc'[e] # "tick"
      PROVE  Counted'
  BY <1>a, <1>d DEF Counted
<1>0. CASE UNCHANGED vars
  BY <1>0, <1>c DEF vars
<1>1. ASSUME NEW d \in Directors, BeginRound(d) PROVE Counted'
  BY <1>1, <1>a, <1>c, RolledOver, Ensured, OthersStay DEF BeginRound, Turns
<1>2. ASSUME NEW d \in Directors, ClaimDigest(d) PROVE Counted'
  BY <1>2, <1>c, OthersStay DEF ClaimDigest, Turns
<1>3. ASSUME NEW d \in Directors, DigestEnds(d) PROVE Counted'
  BY <1>3, <1>a, <1>b, <1>c, Digested, OthersStay DEF DigestEnds, Turns
<1>4. ASSUME NEW d \in Directors, NoTick(d) PROVE Counted'
  BY <1>4, <1>c, OthersStay DEF NoTick, Turns
<1>5. ASSUME NEW d \in Directors, TickRefused(d) PROVE Counted'
  BY <1>5, <1>a, <1>c, RolledOver, OthersStay DEF TickRefused, Turns
<1>6. ASSUME NEW d \in Directors, NoEngine(d) PROVE Counted'
  <2> DEFINE b == rolloverDayIfNeeded(budget)
  <2>1. b \in BudgetRow /\ b.streak = budget.streak
    BY <1>a, RolledOver
  <2>2. b.streak < Limit
    BY <1>6 DEF NoEngine, checkBudgetGate
  <2>3. budget' = markFailure(b) /\ failed' = failed + 1 /\ overruns' = overruns
    BY <1>6 DEF NoEngine
  <2>4. overruns = 0 => \A e \in Directors : pc'[e] # "tick"
    BY <1>6, OneAtATick, OthersStay DEF NoEngine, Turns
  <2> HIDE DEF b
  <2>5. budget'.streak = budget.streak + 1
    BY <2>1, <2>3, Failed
  <2> QED BY <2>1, <2>2, <2>3, <2>4, <2>5, <1>d
<1>7. ASSUME NEW d \in Directors, StartTick(d) PROVE Counted'
  <2> DEFINE b == rolloverDayIfNeeded(budget)
  <2>1. b.streak = budget.streak
    BY <1>a, RolledOver
  <2>2. b.streak < Limit
    BY <1>7 DEF StartTick, checkBudgetGate
  <2>3. budget' = b /\ failed' = failed /\ overruns' = overruns
    BY <1>7 DEF StartTick
  <2> HIDE DEF b
  <2> QED BY <1>a, <2>1, <2>2, <2>3 DEF Counted
<1>8. ASSUME NEW d \in Directors, CallFails(d) PROVE Counted'
  <2>1. budget'.streak = budget.streak + 1 /\ failed' = failed + 1 /\ overruns' = overruns
    BY <1>8, <1>a, Failed DEF CallFails
  <2>2. overruns = 0 => budget.streak < Limit /\ \A e \in Directors : pc'[e] # "tick"
    BY <1>8, OneAtATick, OthersStay DEF CallFails, Counted, Turns
  <2> QED BY <2>1, <2>2, <1>d
<1>9. ASSUME NEW d \in Directors, AnswerInvalid(d) PROVE Counted'
  <2>1. PICK cost \in Nat : budget' = markFailure(recordThinkSpend(budget, cost))
    BY <1>9 DEF AnswerInvalid
  <2> DEFINE b == recordThinkSpend(budget, cost)
  <2>a. b \in BudgetRow /\ b.streak = budget.streak
    BY <1>a, ThinkSpent
  <2>2. budget'.streak = budget.streak + 1
    <3> HIDE DEF b
    <3>1. budget' = markFailure(b)
      BY <2>1 DEF b
    <3> QED BY <2>a, <3>1, Failed
  <2>3. failed' = failed + 1 /\ overruns' = overruns
    BY <1>9 DEF AnswerInvalid
  <2>4. overruns = 0 => budget.streak < Limit /\ \A e \in Directors : pc'[e] # "tick"
    BY <1>9, OneAtATick, OthersStay DEF AnswerInvalid, Counted, Turns
  <2> QED BY <2>2, <2>3, <2>4, <1>d
<1>10. ASSUME NEW d \in Directors, Answered(d) PROVE Counted'
  <2>1. PICK cost \in Nat : budget' = recordThinkSpend(budget, cost)
    BY <1>10 DEF Answered
  <2>2. budget'.streak = budget.streak
    BY <2>1, <1>a, ThinkSpent
  <2> QED BY <2>2, <1>10, <1>c, OthersStay DEF Answered, Turns
<1>11. ASSUME NEW d \in Directors, TickEnds(d) PROVE Counted'
  <2>1. overruns' = overruns /\ \A e \in Directors : pc'[e] = "tick" => pc[e] = "tick"
    BY <1>11, OthersStay DEF TickEnds, Turns
  <2>2. CASE UNCHANGED <<budget, failed>>
    BY <2>1, <2>2, <1>c
  <2>3. CASE budget' = markSuccess(budget) /\ failed' = 0
    <3>1. budget'.streak = 0
      BY <1>a, <2>3, Succeeded
    <3> QED BY <1>a, <2>1, <2>3, <3>1 DEF Counted
  <2> QED BY <1>11, <2>2, <2>3 DEF TickEnds
<1>12. ASSUME NEW d \in Directors, Restart(d) PROVE Counted'
  BY <1>12, <1>c, OthersStay DEF Restart, Turns
<1>13. ASSUME NEW d \in Directors, Crash(d) PROVE Counted'
  BY <1>13, <1>c, OthersStay DEF Crash, Turns
<1>14. CASE \E word \in Words : PostMessage(word)
  BY <1>14, <1>a, <1>c, Commanded DEF PostMessage, Turns
<1>15. CASE TickNow
  BY <1>15, <1>a, <1>c, Ensured, FlagSet DEF TickNow, Turns
<1>16. CASE SlashDigest
  BY <1>16, <1>a, <1>c, Digested DEF SlashDigest, Turns
<1>17. CASE UtcMidnight
  BY <1>17, <1>a, <1>c DEF UtcMidnight, BudgetRow
<1>18. CASE LocalMidnight
  BY <1>18, <1>a, <1>c DEF LocalMidnight, BudgetRow
<1>19. CASE DigestHour
  BY <1>19, <1>a, <1>c DEF DigestHour, Turns
<1>20. CASE CadenceElapses
  BY <1>20, <1>a, <1>c, FlagSet DEF CadenceElapses, Turns
<1>21. CASE BackoffEnds
  BY <1>21, <1>a, <1>c, FlagSet DEF BackoffEnds, Turns
<1>22. CASE LockExpires
  BY <1>22, <1>a, <1>c DEF LockExpires, Turns
<1> QED
  BY <1>0, <1>1, <1>2, <1>3, <1>4, <1>5, <1>6, <1>7, <1>8, <1>9, <1>10, <1>11, <1>12, <1>13, <1>14, <1>15,
     <1>16, <1>17, <1>18, <1>19, <1>20, <1>21, <1>22 DEF Next, Step, Tick

-----------------------------------------------------------------------------
(* The spend of the day *)

LEMMA RecordedKept ==
  TypeOK /\ (overruns = 0 => Holder) /\ RowThere /\ Recorded /\ [Next]_vars => Recorded'
<1> SUFFICES ASSUME TypeOK, overruns = 0 => Holder, RowThere, Recorded, [Next]_vars PROVE Recorded'
  OBVIOUS
<1> USE DirectorLoopConstants DEF history
<1>a. /\ budget \in BudgetRow /\ waiting \in BOOLEAN /\ overruns \in Nat /\ spent \in Nat
      /\ budget.think \in Nat /\ budget.think <= ThinkCap
      /\ \A b \in BudgetRow : b.think \in Nat /\ b.think <= ThinkCap
      /\ ThinkCap \in Nat /\ 0 < ThinkCap /\ CallCost \in Nat
  BY DEF TypeOK, BudgetRow
<1>b. \A d \in Directors : today[d] \in BOOLEAN
  BY DEF TypeOK
\* Nothing is spent, the sum does not shrink, and nobody comes to a tick.
<1>c. ASSUME spent' = spent, budget'.think \in Nat, budget'.think <= ThinkCap,
             budget'.think >= budget.think,
             budget'.rolled = budget.rolled, overruns' = 0 => overruns = 0,
             \A e \in Directors : pc'[e] = "tick" /\ today'[e] => pc[e] = "tick" /\ today[e]
      PROVE  Recorded'
  <2>1. spent' <= budget'.think \/ budget'.think = ThinkCap
    BY <1>a, <1>c DEF Recorded
  <2> QED BY <1>c, <2>1 DEF Recorded
\* The day is rolled over, and nothing is spent.
<1>d. ASSUME budget.known, spent' = spent, overruns' = overruns,
             budget'.think = rolloverDayIfNeeded(budget).think,
             budget'.rolled = rolloverDayIfNeeded(budget).rolled,
             \A e \in Directors : pc'[e] = "tick" /\ today'[e] =>
                \/ pc[e] = "tick" /\ today[e]
                \/ budget'.think < ThinkCap
      PROVE  Recorded'
  <2>1. budget'.rolled
    BY <1>a, <1>d, RolledOver
  <2>2. CASE budget.rolled
    <3>1. budget'.think = budget.think
      BY <1>a, <1>d, <2>2, RolledOver
    <3>2. spent' <= budget'.think \/ budget'.think = ThinkCap
      BY <1>d, <3>1 DEF Recorded
    <3>3. ASSUME overruns = 0, NEW e \in Directors, pc'[e] = "tick", today'[e]
          PROVE  spent' <= ThinkCap - 1
      BY <1>a, <1>d, <3>1, <3>2, <3>3 DEF Recorded
    <3> QED BY <1>d, <2>1, <3>2, <3>3 DEF Recorded
  <2>3. CASE ~budget.rolled
    <3>1. spent' = 0
      BY <1>d, <2>3 DEF Recorded
    <3>2. rolloverDayIfNeeded(budget) \in BudgetRow
      BY <1>a, RolledOver
    <3>3. budget'.think \in Nat
      BY <1>a, <1>d, <3>2
    <3> QED BY <1>a, <2>1, <3>1, <3>3, <1>d DEF Recorded
  <2> QED BY <2>2, <2>3, <1>a DEF BudgetRow
\* A tick has paid, and is at no tick any more.
<1>e. ASSUME NEW d \in Directors, pc[d] = "tick", NEW cost \in 0 .. CallCost, Spend(d, cost),
             budget'.think = recordThinkSpend(budget, cost).think,
             budget'.rolled = budget.rolled, overruns' = overruns,
             pc'[d] # "tick", \A e \in Directors \ {d} : pc'[e] = pc[e] /\ today'[e] = today[e]
      PROVE  Recorded'
  <2> DEFINE t == recordThinkSpend(budget, cost).think
  <2>0. cost \in Nat /\ cost <= CallCost
    BY <1>a
  <2>1. /\ spent + cost <= t \/ t = ThinkCap
        /\ t = budget.think + cost \/ t = ThinkCap
    <3>1. spent <= budget.think \/ budget.think = ThinkCap
      BY DEF Recorded
    <3> QED BY <1>a, <2>0, <3>1, ThinkSpent
  <2>2. spent' \in Nat /\ (today[d] => spent' = spent + cost) /\ (~today[d] => spent' = spent)
    BY <1>a, <1>e, <2>0, SpendAdds
  <2>3. t \in Nat
    BY <1>a, <2>0, ThinkSpent
  <2>4. spent' <= budget'.think \/ budget'.think = ThinkCap
    <3> HIDE DEF t
    <3>1. budget'.think = t
      BY <1>e DEF t
    <3>2. spent' <= spent + cost
      BY <1>a, <1>b, <2>0, <2>2
    <3> QED BY <1>a, <2>0, <2>1, <2>2, <2>3, <3>1, <3>2
  <2>5. ~budget'.rolled => spent' = 0
    BY <1>b, <1>e, <2>2 DEF Recorded
  <2>6. \A e \in Directors : pc'[e] = "tick" /\ today'[e] => budget'.rolled
    BY <1>e DEF Recorded
  <2>7. overruns' = 0 => spent' <= ThinkCap - 1 + CallCost
    <3>1. CASE today[d]
      BY <1>a, <1>e, <2>0, <2>2, <3>1 DEF Recorded
    <3>2. CASE ~today[d]
      BY <1>a, <1>e, <2>2, <3>2 DEF Recorded
    <3> QED BY <3>1, <3>2
  <2>8. overruns' = 0 => \A e \in Directors : pc'[e] # "tick"
    BY <1>e, OneAtATick
  <2> QED BY <2>4, <2>5, <2>6, <2>7, <2>8 DEF Recorded
<1>0. CASE UNCHANGED vars
  BY <1>0, <1>a, <1>c DEF vars
<1>1. ASSUME NEW d \in Directors, BeginRound(d) PROVE Recorded'
  <2> DEFINE b == rolloverDayIfNeeded(budget)
  <2>1. b \in BudgetRow /\ budget' = ensureBudgetState(b)
    BY <1>1, <1>a, RolledOver DEF BeginRound
  <2>2. budget'.think = b.think /\ budget'.rolled = b.rolled
    <3> HIDE DEF b
    <3> QED BY <2>1, Ensured
  <2>3. \A e \in Directors : pc'[e] = "tick" /\ today'[e] => pc[e] = "tick" /\ today[e]
    BY <1>1, OthersStay DEF BeginRound, Turns
  <2>4. CASE budget.known
    BY <1>1, <1>d, <2>2, <2>3, <2>4 DEF BeginRound
  <2>5. CASE ~budget.known
    <3>1. b = budget
      BY <1>a, <2>5, RolledOver
    <3> QED BY <1>1, <1>a, <1>c, <2>2, <2>3, <3>1 DEF BeginRound
  <2> QED BY <1>a, <2>4, <2>5 DEF BudgetRow
<1>2. ASSUME NEW d \in Directors, ClaimDigest(d) PROVE Recorded'
  <2>1. \A e \in Directors : pc'[e] = "tick" /\ today'[e] => pc[e] = "tick" /\ today[e]
    BY <1>2, OthersStay DEF ClaimDigest, Turns, TypeOK
  <2> QED BY <1>2, <1>a, <1>c, <2>1 DEF ClaimDigest
<1>3. ASSUME NEW d \in Directors, DigestEnds(d) PROVE Recorded'
  <2>1. /\ budget'.think \in Nat /\ budget'.think <= ThinkCap /\ budget'.think >= budget.think
        /\ budget'.rolled = budget.rolled
    BY <1>3, <1>a, <1>b, Digested DEF DigestEnds
  <2>2. \A e \in Directors : pc'[e] = "tick" /\ today'[e] => pc[e] = "tick" /\ today[e]
    BY <1>3, OthersStay DEF DigestEnds, Turns, TypeOK
  <2> QED BY <1>3, <1>c, <2>1, <2>2 DEF DigestEnds
<1>4. ASSUME NEW d \in Directors, NoTick(d) PROVE Recorded'
  <2>1. \A e \in Directors : pc'[e] = "tick" /\ today'[e] => pc[e] = "tick" /\ today[e]
    BY <1>4, OthersStay DEF NoTick, Turns
  <2> QED BY <1>4, <1>a, <1>c, <2>1 DEF NoTick
<1>5. ASSUME NEW d \in Directors, TickRefused(d) PROVE Recorded'
  <2>1. budget.known
    BY <1>5 DEF TickRefused, RowThere
  <2>2. \A e \in Directors : pc'[e] = "tick" /\ today'[e] => pc[e] = "tick" /\ today[e]
    BY <1>5, OthersStay DEF TickRefused, Turns
  <2> QED BY <1>5, <1>d, <2>1, <2>2 DEF TickRefused
<1>6. ASSUME NEW d \in Directors, NoEngine(d) PROVE Recorded'
  <2>1. budget.known
    BY <1>6 DEF NoEngine, RowThere
  <2>2. \A e \in Directors : pc'[e] = "tick" /\ today'[e] => pc[e] = "tick" /\ today[e]
    BY <1>6, OthersStay DEF NoEngine, Turns
  <2>3. /\ budget'.think = rolloverDayIfNeeded(budget).think
        /\ budget'.rolled = rolloverDayIfNeeded(budget).rolled
    BY <1>6, <1>a, RolledOver, Failed DEF NoEngine
  <2> QED BY <1>6, <1>d, <2>1, <2>2, <2>3 DEF NoEngine
<1>7. ASSUME NEW d \in Directors, StartTick(d) PROVE Recorded'
  <2>1. budget.known
    BY <1>7 DEF StartTick, RowThere
  <2>2. budget'.think < ThinkCap
    BY <1>7 DEF StartTick, checkBudgetGate
  <2> QED BY <1>7, <1>d, <2>1, <2>2 DEF StartTick
<1>8. ASSUME NEW d \in Directors, CallFails(d) PROVE Recorded'
  <2>1. budget'.think = budget.think /\ budget'.rolled = budget.rolled
    BY <1>8, <1>a, Failed DEF CallFails
  <2>2. \A e \in Directors : pc'[e] = "tick" /\ today'[e] => pc[e] = "tick" /\ today[e]
    BY <1>8, OthersStay DEF CallFails, Turns, TypeOK
  <2> QED BY <1>8, <1>a, <1>c, <2>1, <2>2 DEF CallFails
<1>9. ASSUME NEW d \in Directors, AnswerInvalid(d) PROVE Recorded'
  <2>1. PICK cost \in 0 .. CallCost : /\ budget' = markFailure(recordThinkSpend(budget, cost))
                                      /\ Spend(d, cost)
    BY <1>9 DEF AnswerInvalid
  <2> DEFINE b == recordThinkSpend(budget, cost)
  <2>2. b \in BudgetRow /\ b.rolled = budget.rolled
    <3>1. cost \in Nat
      BY <1>a
    <3> QED BY <1>a, <3>1, ThinkSpent
  <2>3. budget'.think = b.think /\ budget'.rolled = budget.rolled
    <3>1. budget' = markFailure(b)
      BY <2>1
    <3> HIDE DEF b
    <3> QED BY <2>2, <3>1, Failed
  <2>4. pc[d] = "tick" /\ pc'[d] # "tick" /\ overruns' = overruns
    BY <1>9, OthersStay DEF AnswerInvalid, Turns
  <2>5. \A e \in Directors \ {d} : pc'[e] = pc[e] /\ today'[e] = today[e]
    BY <1>9, OthersStay DEF AnswerInvalid, Turns, TypeOK
  <2> QED BY <1>e, <2>1, <2>3, <2>4, <2>5
<1>10. ASSUME NEW d \in Directors, Answered(d) PROVE Recorded'
  <2>1. PICK cost \in 0 .. CallCost : budget' = recordThinkSpend(budget, cost) /\ Spend(d, cost)
    BY <1>10 DEF Answered
  <2>2. budget'.rolled = budget.rolled
    <3>1. cost \in Nat
      BY <1>a
    <3> QED BY <1>a, <2>1, <3>1, ThinkSpent
  <2>3. pc[d] = "tick" /\ pc'[d] # "tick" /\ overruns' = overruns
    BY <1>10, OthersStay DEF Answered, Turns
  <2>4. \A e \in Directors \ {d} : pc'[e] = pc[e] /\ today'[e] = today[e]
    BY <1>10, OthersStay DEF Answered, Turns, TypeOK
  <2> QED BY <1>e, <2>1, <2>2, <2>3, <2>4
<1>11. ASSUME NEW d \in Directors, TickEnds(d) PROVE Recorded'
  <2>1. budget'.think = budget.think /\ budget'.rolled = budget.rolled
    BY <1>11, <1>a, Succeeded DEF TickEnds
  <2>2. \A e \in Directors : pc'[e] = "tick" /\ today'[e] => pc[e] = "tick" /\ today[e]
    BY <1>11, OthersStay DEF TickEnds, Turns
  <2> QED BY <1>11, <1>a, <1>c, <2>1, <2>2 DEF TickEnds
<1>12. ASSUME NEW d \in Directors, Restart(d) PROVE Recorded'
  <2>1. \A e \in Directors : pc'[e] = "tick" /\ today'[e] => pc[e] = "tick" /\ today[e]
    BY <1>12, OthersStay DEF Restart, Turns
  <2> QED BY <1>12, <1>a, <1>c, <2>1 DEF Restart
<1>13. ASSUME NEW d \in Directors, Crash(d) PROVE Recorded'
  <2>1. \A e \in Directors : pc'[e] = "tick" /\ today'[e] => pc[e] = "tick" /\ today[e]
    BY <1>13, OthersStay DEF Crash, Turns, TypeOK
  <2> QED BY <1>13, <1>a, <1>c, <2>1 DEF Crash
<1>14. CASE \E word \in Words : PostMessage(word)
  BY <1>14, <1>a, <1>c, Commanded DEF PostMessage
<1>15. CASE TickNow
  BY <1>15, <1>a, <1>c, Ensured, FlagSet DEF TickNow
<1>16. CASE SlashDigest
  <2>1. /\ budget'.think \in Nat /\ budget'.think <= ThinkCap /\ budget'.think >= budget.think
        /\ budget'.rolled = budget.rolled
    <3>1. CASE \E begunToday \in BOOLEAN : EndDigest(begunToday)
      BY <1>a, <3>1, Digested
    <3>2. CASE UNCHANGED budget
      BY <1>a, <3>2
    <3> QED BY <1>16, <3>1, <3>2 DEF SlashDigest
  <2> QED BY <1>16, <1>c, <2>1 DEF SlashDigest
<1>17. CASE UtcMidnight
  <2>1. budget'.think = budget.think /\ ~budget'.rolled
    BY <1>17, <1>a DEF UtcMidnight, BudgetRow
  <2>2. \A e \in Directors : pc'[e] = "tick" => ~today'[e]
    BY <1>17 DEF UtcMidnight
  <2> QED BY <1>17, <1>a, <2>1, <2>2 DEF UtcMidnight, Recorded
<1>18. CASE LocalMidnight
  <2>1. budget'.think = budget.think /\ budget'.rolled = budget.rolled
    BY <1>18, <1>a, FlagSet DEF LocalMidnight
  <2>2. \A e \in Directors : today'[e] => today[e]
    BY <1>18 DEF LocalMidnight
  <2> QED BY <1>18, <1>a, <1>c, <2>1, <2>2 DEF LocalMidnight
<1>19. CASE DigestHour
  BY <1>19, <1>a, <1>c DEF DigestHour
<1>20. CASE CadenceElapses
  BY <1>20, <1>a, <1>c, FlagSet DEF CadenceElapses
<1>21. CASE BackoffEnds
  BY <1>21, <1>a, <1>c, FlagSet DEF BackoffEnds
<1>22. CASE LockExpires
  BY <1>22, <1>a, <1>c DEF LockExpires
<1> QED
  BY <1>0, <1>1, <1>2, <1>3, <1>4, <1>5, <1>6, <1>7, <1>8, <1>9, <1>10, <1>11, <1>12, <1>13, <1>14, <1>15,
     <1>16, <1>17, <1>18, <1>19, <1>20, <1>21, <1>22 DEF Next, Step, Tick

-----------------------------------------------------------------------------
(* The theorems *)

LEMMA IInvInit == Init => IInv
<1> SUFFICES ASSUME Init PROVE IInv
  OBVIOUS
<1>1. TypeOK
  BY TypeInit
<1>2. Holder /\ RowThere
  BY DEF Init, Holder, RowThere, Locked
<1>3. Counted
  BY DirectorLoopConstants DEF Init, Counted
<1>4. Recorded
  BY DirectorLoopConstants DEF Init, Recorded
<1> QED BY <1>1, <1>2, <1>3, <1>4 DEF IInv

LEMMA Inductive == Spec => []IInv
<1>1. IInv /\ [Next]_vars => IInv'
  BY TypeKept, HolderKept, RowThereKept, CountedKept, RecordedKept DEF IInv
<1> QED BY IInvInit, <1>1, PTL DEF Spec

\* TypeOK: whatever statements of the director, the pages and the bridge fall on the budget row, in whatever
\* order, it stays one.
THEOREM TypeCorrect == Spec => []TypeOK
<1>1. IInv => TypeOK
  BY DEF IInv
<1> QED BY Inductive, <1>1, PTL

\* OneTick: the lock keeps any number of directors from being at a tick or digest of one
\* repo together, through crashes and take-overs, as long as no lock is outlived.
THEOREM OneTickAtATime == Spec => []OneTick
<1>1. IInv => OneTick
  <2> SUFFICES ASSUME IInv, overruns = 0
               PROVE  Cardinality({d \in Directors : pc[d] \in Locked}) <= 1
    BY DEF OneTick
  <2> DEFINE A == {d \in Directors : pc[d] \in Locked}
  <2>1. A \subseteq {lock.by}
    BY DEF IInv, Holder
  <2>2. IsFiniteSet({lock.by}) /\ Cardinality({lock.by}) = 1
    BY FS_Singleton
  <2>3. Cardinality(A) <= Cardinality({lock.by})
    BY <2>1, <2>2, FS_Subset
  <2> QED BY <2>2, <2>3
<1> QED BY Inductive, <1>1, PTL

\* TickSpendBounded: a day's ticks cost at most the cap and one call more.
THEOREM SpendIsBounded == Spec => []TickSpendBounded
<1>1. IInv => TickSpendBounded
  BY DEF IInv, Recorded, TickSpendBounded
<1> QED BY Inductive, <1>1, PTL

\* FailuresStop: no more than Limit ticks fail in a row.
THEOREM FailuresAreBounded == Spec => []FailuresStop
<1>1. IInv => FailuresStop
  BY DEF IInv, Counted, FailuresStop
<1> QED BY Inductive, <1>1, PTL

-----------------------------------------------------------------------------
(* Before any turn: a director, like the daemon and the command line, opens the database and       *)
(* migrates it.  Processes and what they start with are those of RepoConfig.                       *)

CONSTANTS Main, Director, NoFile, NoRow, NotRead, OldSchemas, MaxEvents

VARIABLES file, torn, global, row, lastId, booting, mem, event, missed, round, purging, cli,
          manual, stale, events

Setup == INSTANCE RepoConfig WITH pc <- booting

\* The statements of the versions, one set each.
LEMMA OfQueue ==
  /\ Adds[1] = {<<"repos", "table">>, <<"tasks", "table">>, <<"runs", "table">>}
  /\ Adds[2] = {<<"tasks", "priority_next_due_at_last_error">>, <<"webhook_secrets", "table">>}
  /\ Adds[3] = {<<"pr_branches", "table">>}
  /\ Adds[4] = {<<"deploys", "table">>, <<"tasks", "source">>}
<1>1. \A v \in 1 .. 4 : Adds[v] = QueueVersions[v]
  BY DEF Adds, Latest
<1>2. /\ Adds[1] = QueueVersions[1]
      /\ Adds[2] = QueueVersions[2]
      /\ Adds[3] = QueueVersions[3]
      /\ Adds[4] = QueueVersions[4]
  BY <1>1
<1> QED BY <1>2 DEF QueueVersions

LEMMA OfLanes ==
  /\ Adds[5] = {<<"runs", "prompt_log_path">>}
  /\ Adds[6] = {<<"runs", "indexes">>}
  /\ Adds[7] = {<<"pr_branches", "conflict_resolutions_count">>}
  /\ Adds[8] = {<<"pr_branches", "last_error">>}
  /\ Adds[9] = {<<"deploys", "table">>}
  /\ Adds[10] = {<<"admin_audit", "table">>}
  /\ Adds[11] = {}
<1>1. \A v \in 5 .. 11 : Adds[v] = LaneVersions[v - 4]
  BY DEF Adds, Latest
<1>2. /\ Adds[5] = LaneVersions[1]
      /\ Adds[6] = LaneVersions[2]
      /\ Adds[7] = LaneVersions[3]
      /\ Adds[8] = LaneVersions[4]
      /\ Adds[9] = LaneVersions[5]
      /\ Adds[10] = LaneVersions[6]
      /\ Adds[11] = LaneVersions[7]
  BY <1>1
<1> QED BY <1>2 DEF LaneVersions

LEMMA OfDirector ==
  /\ Adds[12] = {<<"director_messages", "table">>, <<"director_decisions", "table">>,
                       <<"director_charter_versions", "table">>, <<"director_budget_state", "table">>}
  /\ Adds[13] = {<<"director_budget_history", "table">>}
  /\ Adds[14] = {<<"director_active_ticks", "table">>}
  /\ Adds[15] = {<<"director_decisions", "payload_hash">>}
  /\ Adds[16] = {<<"director_budget_state", "last_digest_date">>}
<1>1. \A v \in 12 .. 16 : Adds[v] = DirectorVersions[v - 11]
  BY DEF Adds, Latest
<1>2. /\ Adds[12] = DirectorVersions[1]
      /\ Adds[13] = DirectorVersions[2]
      /\ Adds[14] = DirectorVersions[3]
      /\ Adds[15] = DirectorVersions[4]
      /\ Adds[16] = DirectorVersions[5]
  BY <1>1
<1> QED BY <1>2 DEF DirectorVersions

LEMMA OfLater ==
  /\ Adds[17] = {<<"director_notes", "table">>}
  /\ Adds[18] = {<<"director_decisions", "trace">>}
  /\ Adds[19] = {<<"director_outcome_followups", "table">>}
  /\ Adds[20] = {<<"director_budget_state", "digest_retries">>}
  /\ Adds[21] = {<<"repos", "hidden">>}
<1>1. \A v \in 17 .. 21 : Adds[v] = LaterVersions[v - 16]
  BY DEF Adds, Latest
<1>2. /\ Adds[17] = LaterVersions[1]
      /\ Adds[18] = LaterVersions[2]
      /\ Adds[19] = LaterVersions[3]
      /\ Adds[20] = LaterVersions[4]
      /\ Adds[21] = LaterVersions[5]
  BY <1>1
<1> QED BY <1>2 DEF LaterVersions

LEMMA Versions == \A v \in 1 .. 21 :
  \/ v = 1 \/ v = 2 \/ v = 3 \/ v = 4 \/ v = 5 \/ v = 6 \/ v = 7 \/ v = 8 \/ v = 9 \/ v = 10 \/ v = 11
  \/ v = 12 \/ v = 13 \/ v = 14 \/ v = 15 \/ v = 16 \/ v = 17 \/ v = 18 \/ v = 19 \/ v = 20 \/ v = 21
OBVIOUS

\* Nothing is made twice, but the deploys table.
LEMMA Apart ==
  ASSUME NEW v \in 1 .. 21, NEW w \in 1 .. 21, v < w, NEW x \in Adds[v], x \in Adds[w]
  PROVE  x = <<"deploys", "table">> /\ v = 4 /\ w = 9
BY OfQueue, OfLanes, OfDirector, OfLater, Versions, SMTT(30)

\* What a version adds belongs to a table that it makes itself or that has been made before.
LEMMA Based ==
  ASSUME NEW v \in 1 .. 21, NEW x \in Adds[v]
  PROVE  \E w \in 1 .. v : /\ <<x[1], "table">> \in Adds[w]
                           /\ w = v \/ (Place(w) < Place(v) /\ x[1] # "deploys")
BY OfQueue, OfLanes, OfDirector, OfLater, Versions, SMTT(30) DEF Place

\* No statement of a version that is due fails on a database of a release, and what comes of it
\* is whole.  The deploys table comes a second time only where it is made if missing, after the
\* fourth version that may have gone without it.
LEMMA ReleasedMigrate ==
  ASSUME NEW db \in ReleasedDatabases
  PROVE  Migrates(db) /\ applyMigrations(db) = Whole
<1> DEFINE There(n) == UNION {Adds[v] : v \in 1 .. n}
<1>1. PICK n \in 0 .. 21 : /\ db.version = n
                           /\ \/ db.objects = There(n)
                              \/ n \in 4 .. 8 /\ db.objects = There(n) \ {<<"deploys", "table">>}
  <2>1. \/ \E n \in 0 .. 21 : db = [version |-> n, objects |-> There(n)]
        \/ \E n \in 4 .. 8 : db = [version |-> n, objects |-> There(n) \ {<<"deploys", "table">>}]
    <3>1. db \in {[version |-> n, objects |-> There(n)] : n \in 0 .. 21}
             \cup {[version |-> n, objects |-> There(n) \ {<<"deploys", "table">>}] : n \in 4 .. 8}
      BY Zenon DEF ReleasedDatabases, Upto, Latest
    <3> HIDE DEF There
    <3> QED BY <3>1
  <2> HIDE DEF There
  <2>2. 4 .. 8 \subseteq 0 .. 21
    OBVIOUS
  <2> QED BY <2>1, <2>2
<1>2. Due(db) = n + 1 .. 21
  BY <1>1 DEF Due, Latest
<1>3. db.objects \subseteq There(n)
  BY <1>1
<1>4. \A w \in 1 .. n : \A x \in Adds[w] :
        x \in db.objects \/ (n \in 4 .. 8 /\ x = <<"deploys", "table">>)
  BY <1>1
<1>5. applyMigrations(db) = Whole
  <2>1. db.objects \cup UNION {Adds[v] : v \in n + 1 .. 21} = UNION {Adds[v] : v \in 1 .. 21}
    <3>1. \A x \in db.objects : \E v \in 1 .. 21 : x \in Adds[v]
      BY <1>3
    <3>2. ASSUME NEW v \in 1 .. 21, NEW x \in Adds[v]
          PROVE  x \in db.objects \/ \E w \in n + 1 .. 21 : x \in Adds[w]
      <4>1. CASE v \in n + 1 .. 21
        BY <4>1
      <4>2. CASE v \in 1 .. n
        BY <4>2, <1>4, OfLanes
      <4> QED BY <4>1, <4>2
    <3> QED BY <3>1, <3>2
  <2> QED BY <1>2, <2>1 DEF applyMigrations, Whole, Everything, Latest
<1>6. ASSUME NEW v \in n + 1 .. 21
      PROVE  ~Fails(db, v)
  <2> DEFINE here == Present(db, v)
             new == IF v \in IfMissing THEN Adds[v] \ here ELSE Adds[v]
  <2>1. here = db.objects \cup UNION {Adds[w] : w \in {u \in n + 1 .. 21 : Place(u) < Place(v)}}
    BY <1>2 DEF Present
  <2>2. new \cap here = {}
    <3>1. CASE v \in IfMissing
      BY <3>1
    <3>2. CASE v \notin IfMissing
      <4> SUFFICES ASSUME NEW x \in Adds[v], x \in here
                   PROVE  FALSE
        BY <3>2
      <4>1. PICK w \in 1 .. 21 : x \in Adds[w] /\ (w <= n \/ Place(w) < Place(v))
        BY <1>3, <2>1
      <4>2. w # v
        BY <4>1 DEF Place
      <4>3. (v = 4 /\ w = 9) \/ (v = 9 /\ w = 4)
        BY <4>1, <4>2, Apart
      <4> QED BY <3>2, <4>1, <4>3 DEF IfMissing, Place
    <3> QED BY <3>1, <3>2
  <2>3. ASSUME NEW x \in new
        PROVE  <<x[1], "table">> \in here \cup new
    <3>1. PICK w \in 1 .. v : /\ <<x[1], "table">> \in Adds[w]
                              /\ w = v \/ (Place(w) < Place(v) /\ x[1] # "deploys")
      BY Based
    <3>2. CASE w = v
      BY <3>1, <3>2
    <3>3. CASE w # v /\ w <= n
      <4>1. <<x[1], "table">> # <<"deploys", "table">>
        BY <3>1, <3>3
      <4> QED BY <3>1, <3>3, <4>1, <1>4, <2>1
    <3>4. CASE w # v /\ w > n
      BY <3>1, <3>4, <2>1
    <3> QED BY <3>2, <3>3, <3>4
  <2> QED BY <2>2, <2>3 DEF Fails
<1> QED BY <1>2, <1>5, <1>6 DEF Migrates

\* A version that was done and not recorded makes what there is already.
LEMMA HalfAppliedThrows ==
  ASSUME NEW db \in HalfApplied
  PROVE  ~Migrates(db)
<1>1. PICK v \in {14, 15} : db.version = v - 1 /\ db.objects = Upto(v)
  BY DEF HalfApplied
<1>2. v \in 1 .. v /\ v \in Due(db) /\ v \notin IfMissing
  BY <1>1 DEF Due, IfMissing, Latest
<1>3. PICK x : x \in Adds[v]
  BY <1>1, OfDirector
<1>4. x \in Present(db, v)
  BY <1>1, <1>2, <1>3 DEF Present, Upto
<1>5. Fails(db, v)
  BY <1>2, <1>3, <1>4 DEF Fails
<1> QED BY <1>2, <1>5 DEF Migrates

\* Behind 19, only 20 and 21 are due, and they have nothing to do with what 18 makes.
LEMMA SkippedMigrate ==
  ASSUME NEW db \in SkippedTrace
  PROVE  Migrates(db) /\ applyMigrations(db) = Traceless
<1>1. PICK n \in 19 .. 21 : db.version = n /\ db.objects = Upto(n) \ Adds[18]
  BY DEF SkippedTrace, Latest
<1>2. Due(db) = n + 1 .. 21
  BY <1>1 DEF Due, Latest
<1>3. ASSUME NEW v \in n + 1 .. 21, NEW x \in Adds[v]
      PROVE  x \notin Adds[18] /\ x \notin Upto(n) /\ (\A w \in n + 1 .. 21 : w # v => x \notin Adds[w])
  <2>1. ASSUME NEW w \in 1 .. 21, w # v PROVE x \notin Adds[w]
    <3>1. v \in 20 .. 21
      BY <1>1
    <3>2. v < w \/ w < v
      BY <2>1, <3>1
    <3> QED BY <1>3, <2>1, <3>1, <3>2, Apart
  <2>2. 18 \in 1 .. 21 /\ 18 # v /\ 1 .. n \subseteq 1 .. 21 /\ v \notin 1 .. n /\ n + 1 .. 21 \subseteq 1 .. 21
    BY <1>1
  <2> QED BY <2>1, <2>2 DEF Upto
<1>4. applyMigrations(db) = Traceless
  <2>1. (Upto(n) \ Adds[18]) \cup UNION {Adds[v] : v \in n + 1 .. 21} = Everything \ Adds[18]
    <3>1. ASSUME NEW x \in Everything PROVE x \in Upto(n) \/ x \in UNION {Adds[v] : v \in n + 1 .. 21}
      <4>1. PICK v \in 1 .. 21 : x \in Adds[v]
        BY DEF Everything, Latest
      <4>2. v \in 1 .. n \/ v \in n + 1 .. 21
        BY <1>1
      <4> QED BY <4>1, <4>2 DEF Upto
    <3>2. Upto(n) \subseteq Everything /\ UNION {Adds[v] : v \in n + 1 .. 21} \subseteq Everything
      <4>1. 1 .. n \subseteq 1 .. 21 /\ n + 1 .. 21 \subseteq 1 .. 21
        BY <1>1
      <4> QED BY <4>1 DEF Upto, Everything, Latest
    <3> QED BY <1>3, <3>1, <3>2
  <2> QED BY <1>1, <1>2, <2>1 DEF applyMigrations, Traceless
<1>5. ASSUME NEW v \in n + 1 .. 21 PROVE ~Fails(db, v)
  <2>1. v \notin IfMissing /\ v \in 20 .. 21
    BY <1>1 DEF IfMissing
  <2>2. Present(db, v) \subseteq Upto(n) \cup UNION {Adds[w] : w \in {u \in n + 1 .. 21 : u # v}}
    BY <1>1, <1>2 DEF Present, Place
  <2>3. Adds[v] \cap Present(db, v) = {}
    BY <1>3, <2>2
  <2>4. ASSUME NEW x \in Adds[v] PROVE <<x[1], "table">> \in Present(db, v)
    <3>1. (x[1] = "director_budget_state" /\ <<x[1], "table">> \in Adds[12])
          \/ (x[1] = "repos" /\ <<x[1], "table">> \in Adds[1])
      BY <2>1, OfQueue, OfDirector, OfLater
    <3>2. 12 \in 1 .. n /\ 1 \in 1 .. n
      BY <1>1
    <3>3. <<x[1], "table">> \in Upto(n)
      BY <3>1, <3>2 DEF Upto
    <3>4. <<x[1], "table">> \notin Adds[18]
      BY <3>1, OfLater
    <3> QED BY <1>1, <3>3, <3>4 DEF Present
  <2> QED BY <2>1, <2>3, <2>4 DEF Fails
<1> QED BY <1>2, <1>4, <1>5 DEF Migrates

\* A database of the latest version is left as it is.
LEMMA LatestStays ==
  ASSUME NEW db, db \in {Whole, Traceless}
  PROVE  Migrates(db) /\ applyMigrations(db) = db
<1>1. PICK objects : db = [version |-> Latest, objects |-> objects]
  BY DEF Whole, Traceless
<1>2. Due(db) = {}
  BY <1>1 DEF Due, Latest
<1> QED BY <1>1, <1>2 DEF Migrates, applyMigrations

\* The module that is instantiated has the same migrations.
LEMMA SameMigrations ==
  \A db : /\ Setup!Migrates(db) <=> Migrates(db)
          /\ Setup!applyMigrations(db) = applyMigrations(db)
<1>1. /\ Setup!QueueVersions = QueueVersions /\ Setup!LaneVersions = LaneVersions
      /\ Setup!DirectorVersions = DirectorVersions /\ Setup!LaterVersions = LaterVersions
      /\ Setup!Latest = Latest /\ Setup!IfMissing = IfMissing
  BY Zenon DEF Setup!QueueVersions, QueueVersions, Setup!LaneVersions, LaneVersions, Setup!Latest, Latest,
               Setup!DirectorVersions, DirectorVersions, Setup!LaterVersions, LaterVersions,
               Setup!IfMissing, IfMissing
<1>2. Setup!Adds = Adds
  BY <1>1 DEF Setup!Adds, Adds
<1>3. ASSUME NEW db PROVE Setup!Due(db) = Due(db) /\ Setup!applyMigrations(db) = applyMigrations(db)
  BY <1>1, <1>2, Zenon DEF Setup!applyMigrations, applyMigrations, Setup!Due, Due
<1>4. ASSUME NEW db, NEW v PROVE Setup!Present(db, v) = Present(db, v)
  <2>1. \A u : Setup!Place(u) = Place(u)
    BY Zenon DEF Setup!Place, Place
  <2> QED BY <1>2, <1>3, <2>1 DEF Setup!Present, Present
<1>5. ASSUME NEW db, NEW v PROVE Setup!Fails(db, v) <=> Fails(db, v)
  BY <1>1, <1>2, <1>4, Zenon DEF Setup!Fails, Fails
<1> QED BY <1>3, <1>5, Zenon DEF Setup!Migrates, Migrates

\* Only migrations touch the schema, and only where no statement fails.
LEMMA SchemaMoves ==
  ASSUME [Setup!Next]_(Setup!vars)
  PROVE  found' = found /\ (schema' = schema \/ (Migrates(schema) /\ schema' = applyMigrations(schema)))
BY SameMigrations DEF Setup!Next, Setup!vars, Setup!database, Setup!Procs, Setup!Load, Setup!Migrate,
       Setup!MigrationThrows, Setup!Started,
       Setup!Reload, Setup!Reloaded, Setup!Dies, Setup!CliAdd, Setup!CliLoad, Setup!CliSync, Setup!EditFile,
       Setup!WriteEnds, Setup!EditGlobal, Setup!Hide, Setup!AddRepo, Setup!SaveYaml, Setup!SetWatched,
       Setup!Purge, Setup!PurgeEnds, Setup!StartRound, Setup!ReconcileRepo

\* SchemaSound: on a database of any release, whoever starts, whoever dies and whatever the operators
\* do to the files, the next process gets through the migrations to the whole schema; one that has
\* 19 and not 18 stays without it, and one left half-applied lets no process start
\* (storage/db.ts applyMigrations).
THEOREM EveryStartMigrates == Setup!Spec => []SchemaSound
<1>1. Setup!Init => SchemaSound
  BY ReleasedMigrate, SkippedMigrate, HalfAppliedThrows DEF Setup!Init, SchemaSound
<1>2. SchemaSound /\ [Setup!Next]_(Setup!vars) => SchemaSound'
  <2> SUFFICES ASSUME SchemaSound, [Setup!Next]_(Setup!vars)
               PROVE  SchemaSound'
    OBVIOUS
  <2>1. CASE schema' = schema
    BY <2>1, SchemaMoves DEF SchemaSound
  <2>2. CASE Migrates(schema) /\ schema' = applyMigrations(schema)
    <3>1. found \in ReleasedDatabases => schema' = Whole
      BY <2>2 DEF SchemaSound
    <3>2. found \in SkippedTrace => schema' = Traceless
      BY <2>2 DEF SchemaSound
    <3>3. found \notin HalfApplied
      BY <2>2 DEF SchemaSound
    <3> QED BY <3>1, <3>2, <3>3, LatestStays, SchemaMoves DEF SchemaSound
  <2> QED BY <2>1, <2>2, SchemaMoves
<1> QED BY <1>1, <1>2, PTL DEF Setup!Spec
=============================================================================
