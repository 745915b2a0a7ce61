------------------------------- MODULE Intake -------------------------------
(***************************************************************************)
(* How work reaches the task table: the webhooks (server/webhooks.ts), the *)
(* scan of the Jira tracker (scheduler/reconcile.ts, providers/jira.ts),   *)
(* the buttons and calls of the operator (server/admin.ts, server/api.ts)  *)
(* and the Telegram poller that takes messages for tasks                   *)
(* (providers/telegram.ts).                                                *)
(*                                                                         *)
(* The world: reviewers write, tickets open and close while they are       *)
(* listed page by page, deliveries get lost, are repeated or overtake each *)
(* other, calls fail, the process dies.                                    *)
(***************************************************************************)
EXTENDS Naturals, Sequences, FiniteSets, SequencesExt

CONSTANTS
  Tickets,     \* of the Jira project
  Others,      \* GitHub and GitLab issues and requests, Todoist items
  SourceOf,    \* where each of Others lives: "github", "gitlab" or "todoist"
  AskedPage,   \* maxResults of a search
  ServedPage,  \* how many results the server gives at most, whatever is asked
  Messages,    \* 1..n: Telegram updates, by update_id
  MaxChanges,  \* bound on what people do: events, tickets opened or closed, hiding the repo
  MaxFailures  \* bound on calls that fail and on crashes

ASSUME IntakeConstants ==
  /\ AskedPage \in Nat \ {0} /\ ServedPage \in 1..AskedPage
  /\ MaxChanges \in Nat /\ MaxFailures \in Nat
  /\ Messages \subseteq Nat \ {0}
  /\ SourceOf \in [Others -> {"github", "gitlab", "todoist"}]

VARIABLES
  rows,      \* the rows of the task table
  park,      \* per item, its branch row: "transient" is "error" or "dirty", "blocked" is
             \* "guardrail_blocked"
  hidden,    \* the repo is hidden, in the configuration in memory
  watches,   \* and watched
  open,      \* the forge's list of open tickets, in the order it serves them
  ever,      \* tickets that have been opened
  hooks,     \* deliveries on their way
  scan,      \* the search the reconcile loop is in: where its next page starts
  \* the Telegram poller
  sent,      \* how many messages users have sent
  offset,    \* the poller's next offset, in memory
  confirmed, \* the offset Telegram has seen: what is below it is not served again
  batch,     \* updates fetched and not handled yet
  answering, \* the update whose answer is being sent, and the answer
  handled,   \* updates whose handling has begun
  told,      \* updates whose sender was told that the task was accepted
  dropped,   \* updates a failing answer made the poller forget
  changes, failures

work == <<rows, park>>
forge == <<hidden, watches, open, ever, hooks>>
poller == <<sent, offset, confirmed, batch, answering, handled, told, dropped>>
vars == <<work, forge, scan, poller, changes, failures>>

Items == Tickets \cup Others

\* The key of a Telegram row: "tg_" and the update_id.
Keys == Items \cup Messages

NoScan   == [busy |-> FALSE, startAt |-> 0]
NoAnswer == [to |-> 0, text |-> "none"]
Absent   == [status |-> "absent", priority |-> "normal", later |-> FALSE]

\* A new installation that knows nothing yet.
Init ==
  /\ rows = [k \in Keys |-> Absent] /\ park = [i \in Others |-> "none"]
  /\ hidden = FALSE /\ watches = TRUE /\ open = <<>> /\ ever = {} /\ hooks = {}
  /\ scan = NoScan
  /\ sent = 0 /\ offset = 0 /\ confirmed = 0 /\ batch = <<>> /\ answering = NoAnswer
  /\ handled = {} /\ told = {} /\ dropped = {}
  /\ changes = 0 /\ failures = 0

Change == changes < MaxChanges /\ changes' = changes + 1
Failure == failures < MaxFailures /\ failures' = failures + 1

----------------------------------------------------------------------------
(* The task table *)

\* upsertTask, upsertJiraTask, upsertTodoistTask: insert with the defaults, unless there.
Upserted(row) == IF row.status = "absent" THEN [row EXCEPT !.status = "pending"] ELSE row

\* enqueue at once, with this priority.
Enqueued(row, prio) == [Upserted(row) EXCEPT !.status = "pending", !.priority = prio, !.later = FALSE]

Queue(k, prio) == rows' = [rows EXCEPT ![k] = Enqueued(@, prio)]

\* A worker has been through a due task: done until later (the priority of a row that is not
\* pending is never read: every way back sets it), or an error that parks its branch.
Work(k) ==
  /\ rows[k].status = "pending" /\ ~rows[k].later
  /\ \/ /\ rows' = [rows EXCEPT ![k] = [status |-> "done", priority |-> "normal", later |-> TRUE]]
        /\ UNCHANGED <<park, failures>>
     \/ /\ k \in Others /\ Failure
        /\ rows' = [rows EXCEPT ![k].later = TRUE]
        /\ \E p \in {"transient", "blocked"} : park' = [park EXCEPT ![k] = p]
  /\ UNCHANGED <<forge, scan, poller, changes>>

----------------------------------------------------------------------------
(* What happens on the forges; each event is delivered by a webhook, or lost. *)

Event(item, kind, own) == [item |-> item, kind |-> kind, own |-> own]

Sends(e) == hooks' \in {hooks, hooks \cup {e}}

\* A ticket appears: JQL without an order puts it anywhere.
OpenTicket(t) ==
  /\ t \notin ever /\ Change
  /\ ever' = ever \cup {t}
  /\ \E i \in 1..(Len(open) + 1) : open' = InsertAt(open, i, t)
  /\ Sends(Event(t, "created", FALSE))
  /\ UNCHANGED <<work, hidden, watches, scan, poller, failures>>

CloseTicket(t) ==
  /\ t \in Range(open) /\ Change
  /\ open' = Remove(open, t)
  /\ Sends(Event(t, "updated", FALSE))
  /\ UNCHANGED <<work, hidden, watches, ever, scan, poller, failures>>

\* Somebody, or the bot itself, writes to an item or edits it.
Touch(item, kind, own) ==
  /\ Change
  /\ item \in Tickets => item \in ever
  /\ hooks' = hooks \cup {Event(item, kind, own)}
  /\ UNCHANGED <<work, hidden, watches, open, ever, scan, poller, failures>>

\* The operator hides the repo or brings it back, or changes "watched" in its file.
SetRepo ==
  /\ Change
  /\ \/ hidden' = ~hidden /\ UNCHANGED watches
     \/ watches' = ~watches /\ UNCHANGED hidden
  /\ UNCHANGED <<work, open, ever, hooks, scan, poller, failures>>

----------------------------------------------------------------------------
(* server/webhooks.ts: a delivery with a good signature, for a repo of the configuration. *)

\* Delivered; it may be delivered again.
Taken(e) == \/ hooks' = hooks \ {e} /\ UNCHANGED failures
            \/ hooks' = hooks /\ Failure

\* isBotMessage: a comment, a note or a review of our own.
isBotMessage(e) == e.kind = "comment" /\ e.own

Ignored == UNCHANGED work

\* liftTransientPark, and what the retry button does.
Lifted(i, what) == IF park[i] = what THEN [park EXCEPT ![i] = "none"] ELSE park

\* Issues, requests, comments and reviews alike; a comment on an issue lifts its park.
OnGithub(e) ==
  IF isBotMessage(e) THEN Ignored
  ELSE /\ Queue(e.item, "high")
       /\ park' = IF e.kind = "comment" THEN Lifted(e.item, "transient") ELSE park

\* Merge requests and notes only: an issue's own events are not among those handled.
OnGitlab(e) ==
  IF isBotMessage(e) \/ e.kind = "created" THEN Ignored
  ELSE Queue(e.item, "high") /\ UNCHANGED park

OnJira(e) ==
  IF isBotMessage(e) THEN Ignored
  ELSE /\ Queue(e.item, IF e.kind = "created" THEN "high" ELSE "normal")
       /\ UNCHANGED park

\* The item's label decides, except for a note.
OnTodoist(e) ==
  \/ e.kind # "comment" /\ Ignored
  \/ IF isBotMessage(e) THEN Ignored
     ELSE /\ Queue(e.item, IF e.kind = "created" THEN "high" ELSE "normal")
          /\ UNCHANGED park

Webhook(e) ==
  /\ Taken(e)
  /\ IF hidden THEN Ignored
     ELSE IF e.item \in Tickets THEN OnJira(e)
     ELSE CASE SourceOf[e.item] = "github"  -> OnGithub(e)
            [] SourceOf[e.item] = "gitlab"  -> OnGitlab(e)
            [] SourceOf[e.item] = "todoist" -> OnTodoist(e)
  /\ UNCHANGED <<hidden, watches, open, ever, scan, poller, changes>>

----------------------------------------------------------------------------
(* reconcileJiraTracker, the fallback of the webhook *)

StartScan ==
  /\ ~scan.busy /\ watches /\ ~hidden
  /\ scan' = [busy |-> TRUE, startAt |-> 0]
  /\ UNCHANGED <<work, forge, poller, changes, failures>>

\* What the server answers to a search from this index on.
Page(startAt) ==
  SubSeq(open, startAt + 1,
         IF startAt + ServedPage < Len(open) THEN startAt + ServedPage ELSE Len(open))

\* What the scan does with a ticket: a new one is enqueued, the others are left alone.
Scanned(t) == IF rows[t].status = "absent" THEN Enqueued(rows[t], "high") ELSE rows[t]

\* (mutant) The next page starts where the asked one would have ended.
NextStartAsked(startAt, page) == startAt + AskedPage

NextStart(startAt, page) == startAt + Len(page)

\* listIncomingTasks: a page, its tickets, and on until the total is reached or a page is empty.
ReadPage ==
  /\ scan.busy
  /\ LET page == Page(scan.startAt)
         next == NextStart(scan.startAt, page)
     IN /\ rows' = [k \in Keys |-> IF k \in Range(page) THEN Scanned(k) ELSE rows[k]]
        /\ scan' = IF next >= Len(open) \/ page = <<>> THEN NoScan
                   ELSE [scan EXCEPT !.startAt = next]
  /\ UNCHANGED <<park, forge, poller, changes, failures>>

\* A search that fails ends the scan; so does a crash.
PageFails ==
  /\ scan.busy /\ Failure
  /\ scan' = NoScan
  /\ UNCHANGED <<work, forge, poller, changes>>

----------------------------------------------------------------------------
(* Buttons of the admin pages and calls of the HTTP API *)

Known(k) == rows[k].status # "absent"

\* The first pending task that waits for its time.
KickFirstPending ==
  /\ \E k \in Keys : rows[k].status = "pending" /\ rows[k].later /\ Queue(k, "high")
  /\ UNCHANGED park

Kick(k)      == Known(k) /\ Queue(k, "high") /\ UNCHANGED park
Reenqueue(k) == Known(k) /\ Queue(k, "normal") /\ UNCHANGED park
Cancel(k)    == /\ Known(k) /\ rows' = [rows EXCEPT ![k].status = "done"]
                /\ UNCHANGED park

Retry(k) == k \in Others /\ Known(k) /\ Queue(k, "high") /\ park' = Lifted(k, "blocked")

\* The item is fetched first, and its row made if there is none.
ReviewNow(k) == k \in Others /\ Queue(k, "high") /\ UNCHANGED park

Operator ==
  /\ Change
  /\ \/ KickFirstPending
     \/ \E k \in Keys : Kick(k) \/ Reenqueue(k) \/ Cancel(k) \/ Retry(k) \/ ReviewNow(k)
  /\ UNCHANGED <<forge, scan, poller, failures>>

----------------------------------------------------------------------------
(* The Telegram poller *)

SendMessage ==
  /\ sent + 1 \in Messages /\ Change
  /\ sent' = sent + 1
  /\ UNCHANGED <<work, forge, scan, offset, confirmed, batch, answering, handled, told,
                 dropped, failures>>

\* The updates from this one on, the oldest first.
Served(from) ==
  LET first == IF from = 0 THEN 1 ELSE from IN [i \in 1..(sent + 1 - first) |-> first + i - 1]

\* fetchTasks: asking with an offset confirms what is below it; the next offset is set past
\* the whole batch before any of it is handled.  What is not a text of an allowed user is
\* filtered out.
FetchTasks ==
  /\ batch = <<>> /\ answering = NoAnswer
  /\ confirmed' = IF offset > confirmed THEN offset ELSE confirmed
  /\ LET updates == Served(confirmed') IN
     /\ updates # <<>>
     /\ offset' = Last(updates) + 1
     /\ batch' = updates
  /\ UNCHANGED <<work, forge, scan, sent, answering, handled, told, dropped, changes, failures>>

\* (mutant) The answer goes out before the row is written.
HandleTaskUnrecorded ==
  /\ batch # <<>> /\ answering = NoAnswer
  /\ \E text \in {"which repo?", "accepted"} : answering' = [to |-> Head(batch), text |-> text]
  /\ batch' = Tail(batch) /\ handled' = handled \cup {Head(batch)}
  /\ UNCHANGED <<work, forge, scan, sent, offset, confirmed, told, dropped, changes, failures>>

\* parseTaskText: the repo named, or the only one watched.
parseTaskText(named, watched) ==
  IF named \in watched THEN named
  ELSE IF Cardinality(watched) = 1 THEN CHOOSE r \in watched : TRUE
  ELSE "none"

\* handleTelegramTask up to its answer: no repo can be told from the text, or it has no row
\* yet; else the task's row is written and marked done, and the answer says so.
HandleTask ==
  /\ batch # <<>> /\ answering = NoAnswer
  /\ \E named \in {"none", "this", "other"}, watched \in SUBSET {"this", "other"}, hasRow \in BOOLEAN :
       LET u == Head(batch) IN
       /\ watches <=> "this" \in watched
       /\ IF parseTaskText(named, watched) = "none" \/ ~hasRow
            THEN answering' = [to |-> u, text |-> "which repo?"] /\ UNCHANGED rows
            ELSE /\ answering' = [to |-> u, text |-> "accepted"]
                 /\ rows' = [rows EXCEPT ![u] = [Upserted(@) EXCEPT !.status = "done"]]
  /\ batch' = Tail(batch) /\ handled' = handled \cup {Head(batch)}
  /\ UNCHANGED <<park, forge, scan, sent, offset, confirmed, told, dropped, changes, failures>>

Answered ==
  /\ answering # NoAnswer
  /\ told' = IF answering.text = "accepted" THEN told \cup {answering.to} ELSE told
  /\ answering' = NoAnswer
  /\ UNCHANGED <<work, forge, scan, sent, offset, confirmed, batch, handled, dropped,
                 changes, failures>>

\* The answer cannot be sent.  After "accepted" the catch block answers that the task could not
\* be created; that, or any other answer that fails, ends the batch.
AnswerFails ==
  /\ answering # NoAnswer /\ Failure
  /\ \/ /\ answering.text = "accepted"
        /\ answering' = [answering EXCEPT !.text = "error"]
        /\ UNCHANGED <<batch, dropped>>
     \/ /\ answering.text # "accepted"
        /\ answering' = NoAnswer
        /\ batch' = <<>> /\ dropped' = dropped \cup Range(batch)
  /\ UNCHANGED <<work, forge, scan, sent, offset, confirmed, handled, told, changes>>

----------------------------------------------------------------------------
\* The process dies: the scan, the batch and the offset are gone, the rows are not.
Crash ==
  /\ Failure
  /\ scan' = NoScan
  /\ offset' = 0 /\ batch' = <<>> /\ answering' = NoAnswer
  /\ UNCHANGED <<work, forge, sent, confirmed, handled, told, dropped, changes>>

\* What had to wait is due again.
Clock ==
  /\ \E k \in Keys : rows[k].later
  /\ rows' = [k \in Keys |-> [rows[k] EXCEPT !.later = FALSE]]
  /\ UNCHANGED <<park, forge, scan, poller, changes, failures>>

World ==
  \/ \E t \in Tickets : OpenTicket(t) \/ CloseTicket(t)
  \/ \E i \in Items, kind \in {"created", "updated", "comment"}, own \in BOOLEAN : Touch(i, kind, own)
  \/ SetRepo \/ SendMessage \/ Clock

Next ==
  \/ World \/ Operator \/ Crash
  \/ \E k \in Keys : Work(k)
  \/ \E e \in hooks : Webhook(e)
  \/ StartScan \/ ReadPage \/ PageFails
  \/ FetchTasks \/ HandleTask \/ Answered \/ AnswerFails

Spec == Init /\ [][Next]_vars

\* The reconcile loop comes round and its search goes on.
FairSpec == Spec /\ WF_vars(StartScan) /\ WF_vars(ReadPage)

----------------------------------------------------------------------------
\* A ticket that stays open becomes a task although no webhook told of it, pages are served
\* shorter than asked, tickets move between pages while the scan runs, and scans break off.
TicketsTaken ==
  \A t \in Tickets : <>[](t \in Range(open) /\ watches /\ ~hidden) => <>(rows[t].status # "absent")

\* What Telegram will not serve again was handled, or was dropped with a batch whose answer
\* failed: a crash alone loses nothing.  And whoever was told that a task was accepted has a
\* row for it.
NothingForgotten ==
  /\ \A u \in 1..sent : u < confirmed => u \in handled \cup dropped
  /\ \A u \in told : rows[u].status # "absent"
=============================================================================
