---------------------------- MODULE DirectorLoop ----------------------------
(***************************************************************************)
(* The director of one repo: the loop (director/index.ts), the lock of a   *)
(* tick (active-tick.ts), a planning tick (tick.ts), its budget            *)
(* (budget.ts), the morning digest (digest.ts), the trust ramp             *)
(* (trust-ramp.ts), the operator's messages and slash commands.            *)
(*                                                                         *)
(* Directors are the processes that run the loop on one database: one, and *)
(* two while a deploy replaces it.  /digest runs in the process of the     *)
(* admin pages.  One action is one turn between two awaits; the claim of a *)
(* digest is a turn of its own because another process may act between the *)
(* check and the claim.  What a tick decides is module Decisions.          *)
(***************************************************************************)
EXTENDS Naturals, FiniteSets

CONSTANTS
  Directors, None,
  Limit,      \* pause_on_failure_streak
  ThinkCap,   \* think_daily_usd
  CallCost,   \* what one call of the model costs at most
  \* what the environment of a process may set: the engine, None for no choice, and the keys
  Overrides, KeySets,
  Words,      \* that the messages of the operator begin with
  \* bounds on what the world does
  MaxMishaps  \* crashes, and ticks that outlive their lock

ASSUME DirectorLoopConstants ==
  /\ None \notin Directors /\ IsFiniteSet(Directors) /\ Directors # {}
  /\ {Limit, ThinkCap, CallCost} \subseteq Nat \ {0}
  /\ MaxMishaps \in Nat
  /\ Overrides \subseteq {None, "anthropic", "mimo"}
  /\ KeySets \subseteq SUBSET {"anthropic", "mimo"}
  /\ Overrides # {} /\ KeySets # {}

VARIABLES
  morning,   \* the hour of the digest has come where the operator is
  \* the database
  lock,      \* director_active_ticks: whose, and whether its time is up
  budget,    \* director_budget_state; days are kept as whether they are today
  waiting,   \* the chat ends with a message of the user that no director's follows
  \* the processes
  pc,        \* the turn of a director that comes next
  due,       \* the cadence had elapsed when the round began
  today,     \* the call of a director began on this day, local for a digest, UTC for a tick
  \* history, for the properties and the bounds
  spent,     \* what the ticks that began today cost
  failed,    \* ticks that failed in a row
  crashes, overruns

history == <<spent, failed, crashes, overruns>>
vars == <<morning, lock, budget, waiting, pc, due, today, history>>

Turns == {"down", "idle", "claim", "digest", "pick", "tick", "execute"}

\* The turns that the lock is held for.
Locked == {"digest", "tick", "execute"}

\* known: the row exists.  rolled: last_reset_day is today, UTC.  digested:
\* last_digest_date is today, local.  ticked: the cadence has not elapsed since
\* last_tick_at.  backoff: digest_next_attempt_at lies ahead.
BudgetRow ==
  [known : BOOLEAN, rolled : BOOLEAN, think : 0 .. ThinkCap, streak : Nat,
   ticked : BOOLEAN, paused : BOOLEAN, digested : BOOLEAN, backoff : BOOLEAN]

TypeOK ==
  /\ morning \in BOOLEAN /\ waiting \in BOOLEAN
  /\ lock \in [by : Directors \cup {None}, late : BOOLEAN]
  /\ budget \in BudgetRow
  /\ pc \in [Directors -> Turns]
  /\ due \in [Directors -> BOOLEAN]
  /\ today \in [Directors -> BOOLEAN]
  /\ spent \in Nat /\ failed \in Nat /\ crashes \in Nat /\ overruns \in Nat

Init ==
  /\ morning = FALSE /\ waiting = FALSE
  /\ lock = [by |-> None, late |-> FALSE]
  /\ budget = [known |-> FALSE, rolled |-> FALSE, think |-> 0, streak |-> 0, ticked |-> FALSE,
               paused |-> FALSE, digested |-> FALSE, backoff |-> FALSE]
  /\ pc = [d \in Directors |-> "idle"]
  /\ due = [d \in Directors |-> FALSE]
  /\ today = [d \in Directors |-> FALSE]
  /\ spent = 0 /\ failed = 0 /\ crashes = 0 /\ overruns = 0

Goto(d, turn) == pc' = [pc EXCEPT ![d] = turn]

EndRound(d) == Goto(d, "idle") /\ due' = [due EXCEPT ![d] = FALSE]

-----------------------------------------------------------------------------
(* director_active_ticks *)

\* (mutant) A lock whose time is up is never taken over.
AcquirableOnce == lock.by = None

\* (mutant) The time of the lock is not looked at.
AcquirableAlways == TRUE

tryAcquireTick == lock.by = None \/ lock.late

Acquire(d) == lock' = [by |-> d, late |-> FALSE]

\* The row is deleted whoever holds it.
releaseTick == lock' = [by |-> None, late |-> FALSE]

-----------------------------------------------------------------------------
(* director_budget_state; an update of a row that is not there changes nothing *)

ensureBudgetState(b) == [b EXCEPT !.known = TRUE]

rolloverDayIfNeeded(b) ==
  IF b.known THEN [b EXCEPT !.think = IF b.rolled THEN @ ELSE 0, !.rolled = TRUE] ELSE b

\* (mutant) The cost is not added up.
SpendNothing(b, cost) == b

\* What lies above the cap is cut off: the sum is only ever compared with the cap.
recordThinkSpend(b, cost) ==
  [b EXCEPT !.think = IF @ + cost < ThinkCap THEN @ + cost ELSE ThinkCap]

markTick(b) == [b EXCEPT !.ticked = TRUE]

\* (mutant) A failure is marked but not counted.
MarkOnly(b) == markTick(b)

\* What every way a tick fails does: markTick and bumpFailureStreak.
markFailure(b) == [markTick(b) EXCEPT !.streak = @ + 1]

\* markTick and resetFailureStreak.
markSuccess(b) == [markTick(b) EXCEPT !.streak = 0]

\* checkBudgetGate.  Nothing calls recordProjectSpend, so the daily and the
\* weekly cap of the project never refuse a tick.
checkBudgetGate(b) ==
  /\ ~b.paused
  /\ b.streak < Limit
  /\ b.think < ThinkCap

\* The date recorded is the one the digest began on; the backoff ends.
recordDigestFired(b, begunToday) == [b EXCEPT !.digested = begunToday, !.backoff = FALSE]

recordDigestFailure(b) == [b EXCEPT !.backoff = TRUE]

shouldRunDigest(b) == morning /\ ~b.backoff /\ ~b.digested

-----------------------------------------------------------------------------
(* loopOnce *)

\* Up to the check of the digest.  The cadence is read here, and used after the
\* digest and the follow-up sweep have been awaited.
BeginRound(d) ==
  LET b == ensureBudgetState(rolloverDayIfNeeded(budget)) IN
  /\ pc[d] = "idle"
  /\ budget' = b
  /\ due' = [due EXCEPT ![d] = ~b.ticked]
  /\ Goto(d, IF shouldRunDigest(b) THEN "claim" ELSE "pick")
  /\ UNCHANGED <<morning, lock, waiting, today, history>>

ClaimDigest(d) ==
  /\ pc[d] = "claim"
  /\ \/ /\ tryAcquireTick
        /\ Acquire(d)
        /\ today' = [today EXCEPT ![d] = TRUE]
        /\ Goto(d, "digest")
     \/ /\ ~tryAcquireTick
        /\ Goto(d, "pick")
        /\ UNCHANGED <<lock, today>>
  /\ UNCHANGED <<morning, budget, waiting, due, history>>

\* runDigest: the digest is posted, or the model is refused for good and the day
\* counts as done, or the call failed and will be retried after the backoff.
EndDigest(begunToday) ==
  \/ \E cost \in 0 .. CallCost :
       budget' = recordDigestFired(recordThinkSpend(budget, cost), begunToday) /\ waiting' = FALSE
  \/ budget' = recordDigestFired(budget, begunToday) /\ UNCHANGED waiting
  \/ budget' = recordDigestFailure(budget) /\ UNCHANGED waiting

DigestEnds(d) ==
  /\ pc[d] = "digest"
  /\ EndDigest(today[d])
  /\ releaseTick
  /\ today' = [today EXCEPT ![d] = FALSE]
  /\ Goto(d, "pick")
  /\ UNCHANGED <<morning, due, history>>

\* A suggestion to change the mode, when the outcomes of two weeks say so and none was
\* made for a week: a message of the director like any other.  The sweep of the
\* follow-ups, awaited before, changes nothing the loop reads.
maybePostTrustRampSuggestion == waiting' \in {waiting, FALSE}

\* Read right after, in the same turn; a message goes before the cadence.
pickTickReason(d) == waiting' \/ due[d]

\* No reason, or the lock of another: the round ends.
NoTick(d) ==
  /\ pc[d] = "pick"
  /\ maybePostTrustRampSuggestion
  /\ ~pickTickReason(d) \/ ~tryAcquireTick
  /\ EndRound(d)
  /\ UNCHANGED <<morning, lock, budget, today, history>>

\* The answer to a message is left to the cheap engine when there is one.  None: the one
\* that is asked for has no key, or there is no key at all.
selectThinkEngine(override, keys, preferCheap) ==
  LET wanted == CASE override # None -> override
                  [] override = None /\ preferCheap -> "mimo"
                  [] OTHER -> "anthropic"
  IN CASE wanted \in keys -> wanted
       [] wanted \notin keys /\ override = None /\ keys # {} -> CHOOSE key \in keys : TRUE
       [] OTHER -> None

ThinkEngines(preferCheap) ==
  {selectThinkEngine(override, keys, preferCheap) : override \in Overrides, keys \in KeySets}

\* executeTick and runTick up to the call of the model, which the gate may refuse, and
\* for which there may be no engine.
TickRefused(d) ==
  LET b == rolloverDayIfNeeded(budget) IN
  /\ pc[d] = "pick"
  /\ maybePostTrustRampSuggestion
  /\ pickTickReason(d) /\ tryAcquireTick
  /\ ~checkBudgetGate(b)
  /\ budget' = b
  /\ releaseTick
  /\ EndRound(d)
  /\ UNCHANGED <<morning, today, history>>

NoEngine(d) ==
  LET b == rolloverDayIfNeeded(budget) IN
  /\ pc[d] = "pick"
  /\ maybePostTrustRampSuggestion
  /\ pickTickReason(d) /\ tryAcquireTick
  /\ checkBudgetGate(b)
  /\ None \in ThinkEngines(waiting')
  /\ budget' = markFailure(b)
  /\ failed' = failed + 1
  /\ releaseTick
  /\ EndRound(d)
  /\ UNCHANGED <<morning, today, spent, crashes, overruns>>

StartTick(d) ==
  LET b == rolloverDayIfNeeded(budget) IN
  /\ pc[d] = "pick"
  /\ maybePostTrustRampSuggestion
  /\ pickTickReason(d) /\ tryAcquireTick
  /\ checkBudgetGate(b)
  /\ ThinkEngines(waiting') # {None}
  /\ budget' = b
  /\ Acquire(d)
  /\ today' = [today EXCEPT ![d] = TRUE]
  /\ Goto(d, "tick")
  /\ UNCHANGED <<morning, due, history>>

\* What the ticks of today have cost, when this one has cost that much more.
Spend(d, cost) == spent' = IF today[d] THEN spent + cost ELSE spent

CallFails(d) ==
  /\ pc[d] = "tick"
  /\ budget' = markFailure(budget)
  /\ failed' = failed + 1
  /\ releaseTick
  /\ today' = [today EXCEPT ![d] = FALSE]
  /\ EndRound(d)
  /\ UNCHANGED <<morning, waiting, spent, crashes, overruns>>

\* The answer does not parse.
AnswerInvalid(d) ==
  /\ pc[d] = "tick"
  /\ \E cost \in 0 .. CallCost :
       /\ budget' = markFailure(recordThinkSpend(budget, cost))
       /\ Spend(d, cost)
  /\ failed' = failed + 1
  /\ releaseTick
  /\ today' = [today EXCEPT ![d] = FALSE]
  /\ EndRound(d)
  /\ UNCHANGED <<morning, waiting, crashes, overruns>>

\* The decisions are recorded and the status is posted before any is executed.
Answered(d) ==
  /\ pc[d] = "tick"
  /\ \E cost \in 0 .. CallCost :
       /\ budget' = recordThinkSpend(budget, cost)
       /\ Spend(d, cost)
  /\ waiting' = FALSE
  /\ today' = [today EXCEPT ![d] = FALSE]
  /\ Goto(d, "execute")
  /\ UNCHANGED <<morning, lock, due, failed, crashes, overruns>>

\* All decisions have been executed, or something threw, which records nothing.
TickEnds(d) ==
  /\ pc[d] = "execute"
  /\ \/ budget' = markSuccess(budget) /\ failed' = 0
     \/ UNCHANGED <<budget, failed>>
  /\ releaseTick
  /\ EndRound(d)
  /\ UNCHANGED <<morning, waiting, today, spent, crashes, overruns>>

Restart(d) ==
  /\ pc[d] = "down"
  /\ Goto(d, "idle")
  /\ UNCHANGED <<morning, lock, budget, waiting, due, today, history>>

Tick(d) == TickRefused(d) \/ NoEngine(d) \/ StartTick(d)

Step(d) ==
  \/ BeginRound(d) \/ ClaimDigest(d) \/ DigestEnds(d)
  \/ NoTick(d) \/ Tick(d)
  \/ CallFails(d) \/ AnswerInvalid(d) \/ Answered(d) \/ TickEnds(d)
  \/ Restart(d)

-----------------------------------------------------------------------------
(* The admin pages and the chat *)

Commands == {"tick", "digest", "pause", "resume", "status", "budget", "approve_all", "help"}

\* Of the word that a message begins with after "/", None when it is no command.
parseSlashCommand(word) ==
  CASE word \in {"approve-all", "approveall"} -> "approve_all"
    [] word \in Commands -> word
    [] OTHER -> None

Updated(b) == IF budget.known THEN b ELSE budget

\* Up to its first await: /digest is SlashDigest, /approve-all is module Decisions.  /pause
\* and /tick change nothing before the row is there, and /status makes it.
runSlashCommand(cmd) ==
  CASE cmd = "tick" -> Updated([budget EXCEPT !.ticked = FALSE])
    [] cmd = "pause" -> Updated([budget EXCEPT !.paused = TRUE])
    [] cmd = "resume" -> Updated([budget EXCEPT !.paused = FALSE])
    [] cmd \in {"status", "budget"} -> ensureBudgetState(budget)
    [] OTHER -> budget

\* POST messages: a command is a message of the user like any other.
PostMessage(word) ==
  /\ waiting' = TRUE
  /\ budget' = runSlashCommand(parseSlashCommand(word))
  /\ UNCHANGED <<morning, lock, pc, due, today, history>>

\* POST tick-now: the cadence starts anew; the row is created when there is none.
TickNow ==
  /\ budget' = [ensureBudgetState(budget) EXCEPT !.ticked = FALSE]
  /\ UNCHANGED <<morning, lock, waiting, pc, due, today, history>>

\* /digest: runDigest without the lock and without the check of the day.  Nothing of it
\* but its message is seen before it ends; midnight may have passed since.
SlashDigest ==
  /\ \/ budget.known /\ \E begunToday \in BOOLEAN : EndDigest(begunToday)
     \/ ~budget.known /\ waiting' \in {waiting, FALSE} /\ UNCHANGED budget
  /\ UNCHANGED <<morning, lock, pc, due, today, history>>

-----------------------------------------------------------------------------
(* Time and crashes *)

UtcMidnight ==
  /\ budget' = [budget EXCEPT !.rolled = FALSE]
  /\ spent' = 0
  /\ today' = [d \in Directors |-> today[d] /\ pc[d] # "tick"]
  /\ UNCHANGED <<morning, lock, waiting, pc, due, failed, crashes, overruns>>

LocalMidnight ==
  /\ morning
  /\ morning' = FALSE
  /\ budget' = [budget EXCEPT !.digested = FALSE]
  /\ today' = [d \in Directors |-> today[d] /\ pc[d] # "digest"]
  /\ UNCHANGED <<lock, waiting, pc, due, history>>

DigestHour ==
  /\ ~morning
  /\ morning' = TRUE
  /\ UNCHANGED <<lock, budget, waiting, pc, due, today, history>>

CadenceElapses ==
  /\ budget.ticked
  /\ budget' = [budget EXCEPT !.ticked = FALSE]
  /\ UNCHANGED <<morning, lock, waiting, pc, due, today, history>>

BackoffEnds ==
  /\ budget.backoff
  /\ budget' = [budget EXCEPT !.backoff = FALSE]
  /\ UNCHANGED <<morning, lock, waiting, pc, due, today, history>>

\* Five minutes after the lock was taken; who took it may be dead, or still at work.
LockExpires ==
  /\ lock.by # None /\ ~lock.late
  /\ lock' = [lock EXCEPT !.late = TRUE]
  /\ IF pc[lock.by] \in Locked
       THEN crashes + overruns < MaxMishaps /\ overruns' = overruns + 1
       ELSE UNCHANGED overruns
  /\ UNCHANGED <<morning, budget, waiting, pc, due, today, spent, failed, crashes>>

\* The lock stays.
Crash(d) ==
  /\ pc[d] # "down" /\ crashes + overruns < MaxMishaps
  /\ crashes' = crashes + 1
  /\ today' = [today EXCEPT ![d] = FALSE]
  /\ due' = [due EXCEPT ![d] = FALSE]
  /\ Goto(d, "down")
  /\ UNCHANGED <<morning, lock, budget, waiting, spent, failed, overruns>>

Next ==
  \/ \E d \in Directors : Step(d) \/ Crash(d)
  \/ (\E word \in Words : PostMessage(word))
  \/ TickNow \/ SlashDigest
  \/ UtcMidnight \/ LocalMidnight \/ DigestHour
  \/ CadenceElapses \/ BackoffEnds \/ LockExpires

Spec == Init /\ [][Next]_vars

\* The loop runs every ten seconds and every call in it has a timeout; time passes.
Fairness ==
  /\ \A d \in Directors : WF_vars(Step(d))
  /\ WF_vars(LockExpires)

FairSpec == Spec /\ Fairness

-----------------------------------------------------------------------------
\* Whatever crashes and whoever takes over whose lock: as long as no tick has outlived
\* its lock, at most one director is at a planning tick or a digest (tryAcquireTick:
\* "makes parallel ticks structurally impossible").
OneTick == overruns = 0 => Cardinality({d \in Directors : pc[d] \in Locked}) <= 1

\* As long as no tick has outlived its lock, a day's ticks cost at most the cap and one
\* call more, whatever order answers, digests and midnights come in and whether the
\* answers parse or not (think_daily_usd).
TickSpendBounded == overruns = 0 => spent <= ThinkCap - 1 + CallCost

\* As long as no tick has outlived its lock, the streak stops the director after Limit
\* failures in a row, whichever way they failed ("The streak gate will pause us after N").
FailuresStop == overruns = 0 => failed <= Limit

GateOpen == checkBudgetGate(rolloverDayIfNeeded(budget))

\* As long as there is a reason for a tick and the gate is open, the lock is taken again
\* and again, for a tick or for the digest of the day: neither a crash nor a tick that
\* throws keeps it from being had.
TicksGoOn ==
  []<>(\/ ~waiting /\ budget.ticked
       \/ ~GateOpen
       \/ \E d \in Directors : pc[d] \in Locked)
=============================================================================
