----------------------------- MODULE Decisions -----------------------------
(***************************************************************************)
(* The decisions of the director on one repo, from the tick that records   *)
(* them to their outcome: execution by the tick itself, or approval,       *)
(* rejection and expiry.                                                   *)
(*                                                                         *)
(* Two processes share the table.  The director service runs the ticks,    *)
(* the expiry and the Telegram bridge (which serves one command at a       *)
(* time); the main service runs the admin pages, whose requests interleave *)
(* at every await.  An executor (the tick, or an operator's request) has a *)
(* queue of decisions and at most one decision whose calls to the forge    *)
(* are under way.                                                          *)
(*                                                                         *)
(* A payload is a value of its own: its type, the item it is about and the *)
(* hash of its canonical form are functions of it.                         *)
(***************************************************************************)
EXTENDS Integers, FiniteSets

CONSTANTS
  None,
  MaxRows,    \* bound: decisions recorded in a behaviour
  Payloads,   \* what the language model may propose, or an operator may edit it to
  TypeOf,     \* decision type of a payload
  KeyOf,      \* its payload_hash; None where the code computes none
  EditsOf,    \* payloads an edit of it may lead to: only the editable fields differ
  Configs,    \* configurations the operator may set: [mode, can]
  Admins,     \* concurrent requests to the admin pages
  Bridges,    \* the Telegram bridge, or nobody
  Sources,    \* "button": operators act on posted proposals; "list": on any pending row
  Retries,    \* delaysMs.length of withTransientRetry
  Faults,     \* errors of the forge: "transient", "terminal"; "lost": also after it acted
  Crashing    \* processes that may die: "main", "director"

Director  == "director"
Operators == Admins \cup Bridges
Executors == {Director} \cup Operators
Ids       == 1 .. MaxRows

Phases == {"idle", "round", "thinking", "recording", "marking", "acting"}

Modes == {"disabled", "dry_run", "propose", "semi_auto", "full_auto"}

Internal == {"no_op", "ask_user", "remember_preference"}

\* The authority flag that opens a type; the internal ones need none.
FlagOf ==
  [create_issue     |-> "can_create_issues",
   comment_on_issue |-> "can_comment",
   comment_on_pr    |-> "can_comment",
   label_issue      |-> "can_label",
   label_pr         |-> "can_label",
   close_issue      |-> "can_close_issues",
   approve_pr       |-> "can_approve_pr",
   merge_pr         |-> "can_merge",
   amend_charter    |-> "can_modify_charter"]

Flags == {FlagOf[t] : t \in DOMAIN FlagOf}
Types == Internal \cup DOMAIN FlagOf

\* Calls to the forge runDecision makes for a type, one after the other.
Calls(t) ==
  CASE t \in {"label_issue", "label_pr", "close_issue"} -> 2
    [] t \in Internal \cup {"amend_charter"}            -> 0
    [] OTHER                                            -> 1

Outcomes == {"pending", "executed", "failed", "skipped", "dry_run", "rejected", "expired"}
Live     == {"pending", "executed"}

ASSUME DecisionConstants ==
  /\ MaxRows \in Nat /\ Retries \in Nat
  /\ TypeOf \in [Payloads -> Types]
  /\ \A p \in Payloads : KeyOf[p] = None <=> TypeOf[p] \in Internal
  /\ \A p, q \in Payloads : KeyOf[p] = KeyOf[q] /\ KeyOf[p] # None => TypeOf[p] = TypeOf[q]
  /\ EditsOf \in [Payloads -> SUBSET Payloads]
  /\ \A p \in Payloads : \A q \in EditsOf[p] : TypeOf[q] = TypeOf[p]
  /\ Configs \subseteq [mode : Modes, can : SUBSET Flags]
  /\ Sources \subseteq {"button", "list"}
  /\ Faults \subseteq {"transient", "terminal", "lost"}
  /\ Crashing \subseteq {"main", "director"}
  /\ Admins \cap Bridges = {} /\ Director \notin Operators
  /\ None \notin Payloads

VARIABLES
  row,      \* director_decisions, by id
  last,     \* the last id given
  config,   \* the director's configuration as now loaded
  phase,    \* the director's loop: "idle", "round", "thinking" (the model is asked), "recording",
            \* "marking" (the decision recorded last is a duplicate, and not yet called one), "acting"
  under,    \* the configuration an executor was started with, or None
  queue,    \* decisions an executor has still to look at
  edit,     \* the edited payload an approval carries, or None
  run,      \* the decision an executor is carrying out, or None
  landed,   \* history: how often the forge did each call of a decision (2: twice or more)
  did,      \* history: payloads with which it did
  consent   \* history: decisions whose approval was accepted

vars == <<row, last, config, phase, under, queue, edit, run, landed, did, consent>>

Row == [outcome : Outcomes \cup {"absent"},
        draft   : Payloads \cup {None},    \* as recorded; payload_hash is that of the draft
        payload : Payloads \cup {None},
        old     : BOOLEAN,                 \* recorded more than seven days ago
        posted  : BOOLEAN]                 \* its proposal message is in the chat

Run == [id : Ids, payload : Payloads, call : 1 .. 2, attempt : 0 .. Retries,
        sent : BOOLEAN]                    \* the forge has done the present call

ASSUME NoneIsNoRun == None \notin Run

AbsentRow == [outcome |-> "absent", draft |-> None, payload |-> None, old |-> FALSE, posted |-> FALSE]

\* recordDecision, as the tick calls it
NewRow(p) == [outcome |-> "pending", draft |-> p, payload |-> p, old |-> FALSE, posted |-> FALSE]

Settle(id, outcome) == row' = [row EXCEPT ![id].outcome = outcome]

Idle(w) == queue[w] = {} /\ run[w] = None

\* A tick records without an await: the bridge, in the same process, has to wait.
Awake(w) == w \in Bridges => phase \notin {"recording", "marking"}

Head(w, id) == id \in queue[w] /\ \A j \in queue[w] : id <= j

Init ==
  /\ row = [id \in Ids |-> AbsentRow]
  /\ last = 0
  /\ config \in Configs
  /\ phase = "idle"
  /\ under = [w \in Executors |-> None]
  /\ queue = [w \in Executors |-> {}]
  /\ edit = [w \in Executors |-> None]
  /\ run = [w \in Executors |-> None]
  /\ landed = [id \in Ids |-> [k \in 1 .. 2 |-> 0]]
  /\ did = [id \in Ids |-> {}]
  /\ consent = {}

-----------------------------------------------------------------------------
(* Gates *)

\* authorityFor
Gated(p, c) == TypeOf[p] \in DOMAIN FlagOf /\ FlagOf[TypeOf[p]] \notin c.can

\* (mutant) semi_auto lets merges through
NeedsApprovalLax(p, mode) ==
  /\ TypeOf[p] \notin Internal
  /\ TypeOf[p] = "amend_charter" \/ mode \in {"propose", "dry_run", "disabled"}

\* decisionNeedsApproval
NeedsApproval(p, mode) ==
  /\ TypeOf[p] \notin Internal
  /\ \/ TypeOf[p] = "amend_charter"
     \/ mode \in {"propose", "dry_run", "disabled"}
     \/ mode = "semi_auto" /\ TypeOf[p] = "merge_pr"

\* (mutant) executed decisions do not count
DuplicateOfPending(p) ==
  /\ KeyOf[p] # None
  /\ \E j \in 1 .. last : row[j].outcome = "pending" /\ ~row[j].old /\ KeyOf[row[j].draft] = KeyOf[p]

\* findRecentDuplicate, on the table as it is when the decision is about to be recorded.
Duplicate(p) ==
  /\ KeyOf[p] # None
  /\ \E j \in 1 .. last : row[j].outcome \in Live /\ ~row[j].old /\ KeyOf[row[j].draft] = KeyOf[p]

-----------------------------------------------------------------------------
(* The director's loop: a round is expiry, the digest, and a tick if one is due *)

\* (mutant) any old decision expires
StaleAny(id) == row[id].old

\* (mutant) only decisions that were posted as proposals expire
StalePosted(id) == row[id].outcome = "pending" /\ row[id].old /\ row[id].posted

Stale(id) == row[id].outcome = "pending" /\ row[id].old

\* loopOnce up to its first await, with expireStalePending: the configuration of the round is read here.
BeginRound ==
  /\ phase = "idle"
  /\ config.mode # "disabled"
  /\ phase' = "round"
  /\ under' = [under EXCEPT ![Director] = config]
  /\ row' = [id \in Ids |-> IF Stale(id) THEN [row[id] EXCEPT !.outcome = "expired"] ELSE row[id]]
  /\ UNCHANGED <<last, config, queue, edit, run, landed, did, consent>>

BeginTick ==
  /\ phase = "round"
  /\ phase' = "thinking"
  /\ UNCHANGED <<row, last, config, under, queue, edit, run, landed, did, consent>>

\* No tick is due, its gate is closed, the call fails, or its output is invalid.
NoDecision ==
  /\ phase \in {"round", "thinking"}
  /\ phase' = "idle"
  /\ under' = [under EXCEPT ![Director] = None]
  /\ UNCHANGED <<row, last, config, queue, edit, run, landed, did, consent>>

\* recordTickDecisions, one decision at a time and in no transaction.  Each is inserted as pending; a
\* duplicate is not handed to the executor, and called "skipped" by a statement of its own.
RecordNext ==
  /\ phase \in {"thinking", "recording"}
  /\ last < MaxRows
  /\ last' = last + 1
  /\ \E p \in Payloads :
       /\ row' = [row EXCEPT ![last + 1] = NewRow(p)]
       /\ \/ /\ ~Duplicate(p)
             /\ queue' = [queue EXCEPT ![Director] = @ \cup {last + 1}]
             /\ phase' = "recording"
          \/ /\ Duplicate(p)
             /\ phase' = "marking"
             /\ UNCHANGED queue
  /\ UNCHANGED <<config, under, edit, run, landed, did, consent>>

MarkTwin ==
  /\ phase = "marking"
  /\ Settle(last, "skipped")
  /\ phase' = "recording"
  /\ UNCHANGED <<last, config, under, queue, edit, run, landed, did, consent>>

\* All of them are recorded before the first is executed.
BeginActing ==
  /\ phase = "recording"
  /\ phase' = "acting"
  /\ UNCHANGED <<row, last, config, under, queue, edit, run, landed, did, consent>>

EndTick ==
  /\ phase = "acting"
  /\ Idle(Director)
  /\ phase' = "idle"
  /\ under' = [under EXCEPT ![Director] = None]
  /\ UNCHANGED <<row, last, config, queue, edit, run, landed, did, consent>>

-----------------------------------------------------------------------------
(* Execution.  runDecision is entered by the tick (executeDecision) and by  *)
(* approvals (approveDecision) alike.                                       *)

\* (mutant) an edit is carried out without being stored
StoredUnedited(w, id, p) == row[id].payload

\* The payload the row keeps: an approval stores what it is about to carry out, the tick stores nothing.
Stored(w, id, p) == IF w = Director THEN row[id].payload ELSE p

\* Up to the first call: internal types are done at once, a charter is never amended by the program.
Carry(w, id, p) ==
  IF Calls(TypeOf[p]) > 0
  THEN /\ run' = [run EXCEPT ![w] = [id |-> id, payload |-> p, call |-> 1, attempt |-> 0, sent |-> FALSE]]
       /\ row' = [row EXCEPT ![id].payload = Stored(w, id, p)]
  ELSE /\ row' = [row EXCEPT ![id].payload = Stored(w, id, p),
                             ![id].outcome = IF TypeOf[p] = "amend_charter" THEN "failed" ELSE "executed"]
       /\ UNCHANGED run

\* executeDecision on the next decision of the tick.  It works on the decision as recorded and does not
\* read the row again.
ExecuteNext(id) ==
  /\ phase = "acting"
  /\ run[Director] = None
  /\ Head(Director, id)
  /\ queue' = [queue EXCEPT ![Director] = @ \ {id}]
  /\ LET p == row[id].draft
         c == under[Director] IN
     \/ /\ c.mode = "dry_run"
        /\ Settle(id, "dry_run")
        /\ UNCHANGED run
     \/ /\ c.mode # "dry_run"
        /\ Gated(p, c)
        /\ Settle(id, "skipped")
        /\ UNCHANGED run
     \/ /\ c.mode # "dry_run"
        /\ ~Gated(p, c)
        /\ NeedsApproval(p, c.mode)
        /\ row' = [row EXCEPT ![id].outcome = "pending", ![id].posted = TRUE]
        /\ UNCHANGED run
     \/ /\ c.mode # "dry_run"
        /\ ~Gated(p, c)
        /\ ~NeedsApproval(p, c.mode)
        /\ Carry(Director, id, p)
  /\ UNCHANGED <<last, config, phase, under, edit, landed, did, consent>>

\* The forge merges a pull request once.
Refused(w) ==
  /\ TypeOf[run[w].payload] = "merge_pr"
  /\ \E id \in 1 .. last : landed[id][1] > 0 /\ KeyOf[row[id].draft] = KeyOf[run[w].payload]

\* The forge does the present call.
Lands(w) ==
  /\ run[w] # None
  /\ ~run[w].sent
  /\ ~Refused(w)
  /\ run' = [run EXCEPT ![w].sent = TRUE]
  /\ landed' = [landed EXCEPT ![run[w].id][run[w].call] = IF @ < 2 THEN @ + 1 ELSE @]
  /\ did' = [did EXCEPT ![run[w].id] = @ \cup {run[w].payload}]
  /\ UNCHANGED <<row, last, config, phase, under, queue, edit, consent>>

\* (mutant) done after the first call
AnsweredEarly(w) ==
  /\ Awake(w)
  /\ run[w] # None
  /\ run[w].sent
  /\ run' = [run EXCEPT ![w] = None]
  /\ Settle(run[w].id, "executed")
  /\ UNCHANGED <<last, config, phase, under, queue, edit, landed, did, consent>>

\* (mutant) the outcome is not written
AnsweredUnsaved(w) ==
  /\ Awake(w)
  /\ run[w] # None
  /\ run[w].sent
  /\ run' = IF run[w].call < Calls(TypeOf[run[w].payload])
            THEN [run EXCEPT ![w].call = @ + 1, ![w].sent = FALSE]
            ELSE [run EXCEPT ![w] = None]
  /\ UNCHANGED <<row, last, config, phase, under, queue, edit, landed, did, consent>>

\* Its answer arrives: the next call, or the outcome.
Answered(w) ==
  /\ Awake(w)
  /\ run[w] # None
  /\ run[w].sent
  /\ IF run[w].call < Calls(TypeOf[run[w].payload])
     THEN /\ run' = [run EXCEPT ![w].call = @ + 1, ![w].sent = FALSE]
          /\ UNCHANGED row
     ELSE /\ run' = [run EXCEPT ![w] = None]
          /\ Settle(run[w].id, "executed")
  /\ UNCHANGED <<last, config, phase, under, queue, edit, landed, did, consent>>

\* An error arrives instead, of a kind that is retried or not.
Errs(w, kind) ==
  /\ Awake(w)
  /\ run[w] # None
  /\ \/ kind \in Faults /\ (run[w].sent => "lost" \in Faults)
     \/ kind = "terminal" /\ ~run[w].sent /\ Refused(w)

\* withTransientRetry: the whole of runDecision once more.
Retry(w) ==
  /\ Errs(w, "transient")
  /\ run[w].attempt < Retries
  /\ run' = [run EXCEPT ![w].call = 1, ![w].attempt = @ + 1, ![w].sent = FALSE]
  /\ UNCHANGED <<row, last, config, phase, under, queue, edit, landed, did, consent>>

GiveUp(w) ==
  /\ \/ Errs(w, "terminal")
     \/ Errs(w, "transient") /\ run[w].attempt = Retries
  /\ run' = [run EXCEPT ![w] = None]
  /\ Settle(run[w].id, "failed")
  /\ UNCHANGED <<last, config, phase, under, queue, edit, landed, did, consent>>

-----------------------------------------------------------------------------
(* Operators *)

\* Decisions an operator sees and may act on.
Reachable == {id \in Ids : row[id].outcome = "pending" /\ (row[id].posted \/ "list" \in Sources)}

\* Approve one decision, from an admin page possibly with edits.
Request(o, id) ==
  /\ Awake(o)
  /\ Idle(o)
  /\ id \in Reachable
  /\ queue' = [queue EXCEPT ![o] = {id}]
  /\ \E e \in {None} \cup (IF o \in Admins THEN EditsOf[row[id].payload] ELSE {}) :
       edit' = [edit EXCEPT ![o] = e]
  /\ under' = [under EXCEPT ![o] = IF o \in Admins THEN config ELSE None]
  /\ UNCHANGED <<row, last, config, phase, run, landed, did, consent>>

\* Approve-all, the button and the slash command: the pending ids are listed once.
RequestAll(o) ==
  /\ Idle(o)
  /\ o \in Admins
  /\ "list" \in Sources
  /\ Reachable # {}
  /\ queue' = [queue EXCEPT ![o] = Reachable]
  /\ edit' = [edit EXCEPT ![o] = None]
  /\ under' = [under EXCEPT ![o] = config]
  /\ UNCHANGED <<row, last, config, phase, run, landed, did, consent>>

\* approveDecision up to its first await: the row is read again, an edit is stored, the gate is applied
\* of the configuration an admin request read when it came in, or of the present one.
ApproveNext(o, id) ==
  /\ Awake(o)
  /\ run[o] = None
  /\ Head(o, id)
  /\ queue' = [queue EXCEPT ![o] = @ \ {id}]
  /\ LET p == IF edit[o] # None THEN edit[o] ELSE row[id].payload
         c == IF o \in Admins THEN under[o] ELSE config IN
     \/ /\ row[id].outcome # "pending"
        /\ UNCHANGED <<row, run, consent>>
     \/ /\ row[id].outcome = "pending"
        /\ Gated(p, c)
        /\ row' = [row EXCEPT ![id].payload = p, ![id].outcome = "skipped"]
        /\ UNCHANGED <<run, consent>>
     \/ /\ row[id].outcome = "pending"
        /\ ~Gated(p, c)
        /\ Carry(o, id, p)
        /\ consent' = consent \cup {id}
  /\ edit' = [edit EXCEPT ![o] = None]
  /\ under' = [under EXCEPT ![o] = IF queue[o] = {id} THEN None ELSE @]
  /\ UNCHANGED <<last, config, phase, landed, did>>

\* rejectDecision has no await.
Reject(o, id) ==
  /\ Awake(o)
  /\ Idle(o)
  /\ id \in Reachable
  /\ Settle(id, "rejected")
  /\ UNCHANGED <<last, config, phase, under, queue, edit, run, landed, did, consent>>

-----------------------------------------------------------------------------
(* Environment *)

\* Seven days pass, first for the decisions recorded first.  A tick does not last that long.
Age(id) ==
  /\ row[id].outcome # "absent" /\ ~row[id].old
  /\ \A j \in Ids : j < id => row[j].old
  /\ id \notin queue[Director]
  /\ run[Director] # None => run[Director].id # id
  /\ phase = "marking" => id # last
  /\ row' = [row EXCEPT ![id].old = TRUE]
  /\ UNCHANGED <<last, config, phase, under, queue, edit, run, landed, did, consent>>

Reconfigure ==
  /\ config' \in Configs \ {config}
  /\ UNCHANGED <<row, last, phase, under, queue, edit, run, landed, did, consent>>

\* A process dies: what it was doing is forgotten, the rows stay as they are.
Forget(lost) ==
  /\ queue' = [w \in Executors |-> IF w \in lost THEN {} ELSE queue[w]]
  /\ edit' = [w \in Executors |-> IF w \in lost THEN None ELSE edit[w]]
  /\ run' = [w \in Executors |-> IF w \in lost THEN None ELSE run[w]]
  /\ under' = [w \in Executors |-> IF w \in lost THEN None ELSE under[w]]
  /\ UNCHANGED <<row, last, config, landed, did, consent>>

MainDies ==
  /\ "main" \in Crashing
  /\ \E o \in Admins : ~Idle(o)
  /\ Forget(Admins)
  /\ UNCHANGED phase

DirectorDies ==
  /\ "director" \in Crashing
  /\ phase # "idle" \/ \E o \in Bridges : ~Idle(o)
  /\ Forget({Director} \cup Bridges)
  /\ phase' = "idle"

-----------------------------------------------------------------------------

RunStep(w) == Lands(w) \/ Answered(w) \/ Retry(w) \/ GiveUp(w)

Next ==
  \/ BeginRound \/ BeginTick \/ NoDecision \/ RecordNext \/ MarkTwin \/ BeginActing \/ EndTick
  \/ \E id \in Ids : ExecuteNext(id) \/ Age(id)
  \/ \E w \in Executors : RunStep(w)
  \/ \E o \in Operators :
       \/ RequestAll(o)
       \/ \E id \in Ids : Request(o, id) \/ ApproveNext(o, id) \/ Reject(o, id)
  \/ Reconfigure \/ MainDies \/ DirectorDies

Spec == Init /\ [][Next]_vars

\* The service is restarted, its loop goes round, and the calls it makes end.  Nothing is assumed of
\* operators, of the main service, or of what the language model proposes.
Fairness ==
  /\ WF_vars(BeginRound)
  /\ WF_vars(BeginTick \/ NoDecision)
  /\ WF_vars(NoDecision \/ RecordNext \/ MarkTwin \/ BeginActing)
  /\ WF_vars(EndTick)
  /\ WF_vars(\E id \in Ids : ExecuteNext(id))
  /\ WF_vars(RunStep(Director))
  /\ WF_vars(\E id \in Ids : Age(id))

FairSpec == Spec /\ Fairness

-----------------------------------------------------------------------------
(* Properties *)

TypeOK ==
  /\ row \in [Ids -> Row]
  /\ last \in 0 .. MaxRows
  /\ \A id \in Ids : /\ row[id].outcome = "absent" <=> id > last
                     /\ id <= last => /\ {row[id].draft, row[id].payload} \subseteq Payloads
                                      /\ TypeOf[row[id].payload] = TypeOf[row[id].draft]
  /\ config \in Configs
  /\ under \in [Executors -> Configs \cup {None}]
  /\ phase \in Phases
  /\ queue \in [Executors -> SUBSET (1 .. last)]
  /\ edit \in [Executors -> Payloads \cup {None}]
  /\ run \in [Executors -> Run \cup {None}]
  /\ landed \in [Ids -> [1 .. 2 -> 0 .. 2]]
  /\ did \in [Ids -> SUBSET Payloads]
  /\ consent \subseteq 1 .. last

Acted(id) == \E k \in 1 .. 2 : landed[id][k] > 0

\* The forge is touched only under the operator's mandate: in some configuration the operator may set,
\* the type is granted and either somebody approved this very decision or the mode lets the tick act.
\* Executions outlive the configuration they were started under, and rows outlive the tick.
Mandate ==
  \A id \in 1 .. last : Acted(id) =>
    \E c \in Configs :
      /\ FlagOf[TypeOf[row[id].draft]] \in c.can
      /\ \/ id \in consent
         \/ c.mode = "full_auto"
         \/ c.mode = "semi_auto" /\ TypeOf[row[id].draft] # "merge_pr"

\* "executed" is never an empty word: every call of the decision was done by the forge, whoever
\* executed it, however many at a time, and whatever else was written to the row meanwhile.
ExecutedLanded ==
  \A id \in 1 .. last : row[id].outcome = "executed" =>
    \A k \in 1 .. Calls(TypeOf[row[id].draft]) : landed[id][k] > 0

\* A decision's call to the forge runs only once (test/director-approval.test.mjs:264).
RunsOnce == \A id \in Ids : \A k \in 1 .. 2 : landed[id][k] <= 1

\* Once nobody is at work on it, the payload stored in an executed row is one that was executed
\* (docs/DIRECTOR.md:158): an edit is stored before the call it is meant for.
AuditTrail ==
  \A id \in 1 .. last :
    /\ row[id].outcome = "executed"
    /\ Calls(TypeOf[row[id].draft]) > 0
    /\ \A w \in Executors : run[w] # None => run[w].id # id
    => row[id].payload \in did[id]

\* A pending decision that nobody was told of and that nobody has before them: whoever recorded it
\* was about to mark it, or died.
Orphan(id) ==
  /\ row[id].outcome = "pending" /\ ~row[id].posted /\ ~Acted(id)
  /\ \A w \in Executors : id \notin queue[w] /\ (run[w] # None => run[w].id # id)

\* Within seven days no two decisions with the same payload hash are pending or executed
\* (director/dedup.ts:11-15), whatever dies, expires, fails or is approved between the ticks; except that
\* the later of the two may be an orphan, which the tick had not yet called a duplicate, and now and then
\* never will.  It is never shown as a proposal, and never done.
OneLive ==
  \A i, j \in 1 .. last :
    /\ i < j
    /\ {row[i].outcome, row[j].outcome} \subseteq Live
    /\ ~row[i].old /\ ~row[j].old
    /\ KeyOf[row[i].draft] = KeyOf[row[j].draft] /\ KeyOf[row[i].draft] # None
    => Orphan(j)

\* No decision waits for ever, or comes back to wait: it is settled, by people, by the tick, or by
\* expiry, even if processes die in the midst of executing it.
Settles ==
  \A id \in Ids : row[id].outcome = "pending" ~> [](row[id].outcome # "pending")

-----------------------------------------------------------------------------
(* What it implements *)

OutcomeOf == [id \in Ids |-> row[id].outcome]
CallsOf   == [id \in Ids |-> IF id <= last THEN Calls(TypeOf[row[id].draft]) ELSE 0]
DoneFor   == [id \in Ids |-> landed[id][1] + landed[id][2]]

Life == INSTANCE DecisionLife
          WITH Decisions <- Ids, outcome <- OutcomeOf, calls <- CallsOf, done <- DoneFor

\* Whoever works on a decision, however often its calls are tried again and whenever the director dies:
\* a decision that was refused never reached the forge, none is done twice or called executed before it
\* is done, and no outcome but "pending" and "expired" is ever rewritten.
LifeSpec == Life!Spec
=============================================================================
