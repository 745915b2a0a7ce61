---------------------------- MODULE IntakeProofs ----------------------------
(***************************************************************************)
(* What holds of the intake for any tickets, pages, messages and failures: *)
(* a Telegram message that the service confirmed was handled or dropped    *)
(* for a reason, and a sender who was told so has a task.                  *)
(***************************************************************************)
EXTENDS Intake, TLAPS

Priority == {"high", "normal"}

Row == [status : {"absent", "pending", "done"}, priority : Priority, later : BOOLEAN]

Typed ==
  /\ rows \in [Keys -> Row]
  /\ hooks \subseteq [item : Items, kind : {"created", "updated", "comment"}, own : BOOLEAN]
  /\ sent \in Nat /\ 1..sent \subseteq Messages
  /\ offset \in Nat /\ offset <= sent + 1 /\ confirmed \in Nat /\ confirmed <= sent + 1
  /\ batch \in Seq(Messages)
  /\ answering \in [to : Messages \cup {0}, text : {"none", "which repo?", "accepted", "error"}]
  /\ told \subseteq Messages

InBatch(u) == \E i \in 1..Len(batch) : batch[i] = u

\* Below the offset an update was handled, dropped, or is in the batch; below what is confirmed the
\* batch is no excuse.
Accounted ==
  \A u \in 1..sent :
    /\ u < confirmed => u \in handled \cup dropped
    /\ u < offset => u \in handled \cup dropped \/ InBatch(u)

\* The row of an accepted task is there before the answer goes out.
RowFirst ==
  /\ \A u \in told : rows[u].status # "absent"
  /\ answering.text = "accepted" => answering.to # 0 /\ rows[answering.to].status # "absent"

-----------------------------------------------------------------------------
(* The task table *)

\* No row goes away again.
RowsStay ==
  /\ rows' \in [Keys -> Row]
  /\ \A k \in Keys : rows[k].status # "absent" => rows'[k].status # "absent"

LEMMA EnqueuedRow ==
  ASSUME NEW row \in Row, NEW prio \in Priority
  PROVE  /\ Enqueued(row, prio) \in Row /\ Enqueued(row, prio).status = "pending"
         /\ Upserted(row) \in Row /\ Upserted(row).status # "absent"
<1>1. Upserted(row) \in Row /\ Upserted(row).status # "absent"
  BY DEF Upserted, Row
<1> HIDE DEF Upserted
<1>2. Enqueued(row, prio) \in Row /\ Enqueued(row, prio).status = "pending"
  BY <1>1 DEF Enqueued, Row
<1> QED BY <1>1, <1>2

LEMMA OneRow ==
  ASSUME Typed, NEW k \in Keys, NEW row \in Row, row.status # "absent", rows' = [rows EXCEPT ![k] = row]
  PROVE  RowsStay
BY DEF Typed, RowsStay

LEMMA QueueStays ==
  ASSUME Typed, NEW k \in Keys, NEW prio \in Priority, Queue(k, prio)
  PROVE  RowsStay
<1>1. rows[k] \in Row
  BY DEF Typed
<1> DEFINE row == Enqueued(rows[k], prio)
<1>2. row \in Row /\ row.status # "absent"
  BY <1>1, EnqueuedRow
<1>3. rows' = [rows EXCEPT ![k] = row]
  BY DEF Queue
<1> HIDE DEF row
<1> QED BY <1>2, <1>3, OneRow

LEMMA WebhookStays ==
  ASSUME Typed, NEW e \in hooks, Webhook(e)
  PROVE  RowsStay
<1>0. /\ e.item \in Keys /\ {"high", "normal"} \subseteq Priority
      /\ e.item \notin Tickets => e.item \in Others /\ SourceOf[e.item] \in {"github", "gitlab", "todoist"}
  <2>1. e.item \in Items
    BY DEF Typed
  <2> QED BY <2>1, IntakeConstants DEF Items, Keys, Priority
<1>1. CASE Ignored
  BY <1>1 DEF Ignored, work, Typed, RowsStay
<1>2. CASE \E prio \in Priority : Queue(e.item, prio)
  BY <1>0, <1>2, QueueStays
<1>3. Ignored \/ \E prio \in Priority : Queue(e.item, prio)
  <2>1. CASE hidden
    BY <2>1 DEF Webhook
  <2>2. CASE ~hidden /\ e.item \in Tickets
    BY <1>0, <2>2 DEF Webhook, OnJira
  <2>3. CASE ~hidden /\ e.item \notin Tickets
    <3>1. OnGithub(e) \/ OnGitlab(e) \/ OnTodoist(e)
      BY <1>0, <2>3 DEF Webhook
    <3> QED BY <1>0, <3>1 DEF OnGithub, OnGitlab, OnTodoist
  <2> QED BY <2>1, <2>2, <2>3
<1> QED BY <1>1, <1>2, <1>3

LEMMA OperatorStays ==
  ASSUME Typed, Operator
  PROVE  RowsStay
<1>0. {"high", "normal"} \subseteq Priority
  BY DEF Priority
<1>1. CASE \E k \in Keys, prio \in Priority : Queue(k, prio)
  BY <1>1, QueueStays
<1>2. ASSUME NEW k \in Keys, Cancel(k) PROVE RowsStay
  <2> DEFINE row == [rows[k] EXCEPT !.status = "done"]
  <2>1. row \in Row /\ row.status # "absent"
    BY DEF Typed, Row
  <2>2. rows' = [rows EXCEPT ![k] = row]
    BY <1>2 DEF Cancel
  <2> HIDE DEF row
  <2> QED BY <2>1, <2>2, OneRow
<1> QED BY <1>0, <1>1, <1>2 DEF Operator, KickFirstPending, Kick, Reenqueue, Retry, ReviewNow

LEMMA RowsStep ==
  ASSUME Typed, [Next]_vars
  PROVE  RowsStay
<1>0. rows \in [Keys -> Row] /\ {"high", "normal"} \subseteq Priority
  BY DEF Typed, Priority
<1>1. CASE rows' = rows
  BY <1>0, <1>1 DEF RowsStay
<1>2. ASSUME NEW k \in Keys, Work(k) PROVE RowsStay
  <2> DEFINE worked == [status |-> "done", priority |-> "normal", later |-> TRUE]
             parked == [rows[k] EXCEPT !.later = TRUE]
  <2>1. /\ worked \in Row /\ worked.status # "absent"
        /\ parked \in Row /\ parked.status = rows[k].status
    BY <1>0 DEF Row, Priority
  <2>2. rows[k].status = "pending" /\ (rows' = [rows EXCEPT ![k] = worked] \/ rows' = [rows EXCEPT ![k] = parked])
    BY <1>2 DEF Work
  <2> HIDE DEF worked, parked
  <2>3. parked.status # "absent"
    BY <2>1, <2>2
  <2> QED BY <2>1, <2>2, <2>3, OneRow
<1>3. CASE ReadPage
  <2> DEFINE page == Page(scan.startAt)
  <2>1. rows' = [k \in Keys |-> IF k \in Range(page) THEN Scanned(k) ELSE rows[k]]
    BY <1>3 DEF ReadPage
  <2>2. \A k \in Keys : Scanned(k) \in Row /\ (rows[k].status # "absent" => Scanned(k) = rows[k])
    <3> SUFFICES ASSUME NEW k \in Keys
                 PROVE  Scanned(k) \in Row /\ (rows[k].status # "absent" => Scanned(k) = rows[k])
      OBVIOUS
    <3>1. rows[k] \in Row /\ Enqueued(rows[k], "high") \in Row
      BY <1>0, EnqueuedRow
    <3> QED BY <3>1 DEF Scanned
  <2> HIDE DEF page
  <2> QED BY <1>0, <2>1, <2>2 DEF RowsStay
<1>4. CASE HandleTask
  <2> DEFINE u == Head(batch)
             row == [Upserted(rows[u]) EXCEPT !.status = "done"]
  <2>1. u \in Keys
    <3>1. batch # <<>> /\ batch \in Seq(Messages)
      BY <1>4 DEF HandleTask, Typed
    <3>2. u \in Messages
      BY <3>1
    <3> QED BY <3>2 DEF Keys
  <2>2. row \in Row /\ row.status # "absent"
    <3>1. Upserted(rows[u]) \in Row
      BY <1>0, <2>1, EnqueuedRow
    <3> QED BY <3>1 DEF Row
  <2>3. rows' = rows \/ rows' = [rows EXCEPT ![u] = row]
    BY <1>4 DEF HandleTask
  <2> HIDE DEF row, u
  <2> QED BY <1>1, <2>1, <2>2, <2>3, OneRow
<1>5. CASE Clock
  <2>1. rows' = [k \in Keys |-> [rows[k] EXCEPT !.later = FALSE]]
    BY <1>5 DEF Clock
  <2>2. \A k \in Keys : /\ [rows[k] EXCEPT !.later = FALSE] \in Row
                        /\ [rows[k] EXCEPT !.later = FALSE].status = rows[k].status
    BY <1>0 DEF Row
  <2> QED BY <2>1, <2>2 DEF RowsStay
<1>6. CASE rows' = rows \/ Operator \/ Clock \/ ReadPage \/ HandleTask
           \/ (\E k \in Keys : Work(k)) \/ (\E e \in hooks : Webhook(e))
  BY <1>1, <1>2, <1>3, <1>4, <1>5, <1>6, OperatorStays, WebhookStays
<1>7. \/ rows' = rows \/ Operator \/ Clock \/ ReadPage \/ HandleTask
      \/ (\E k \in Keys : Work(k)) \/ (\E e \in hooks : Webhook(e))
  BY DEF Next, vars, work, World, OpenTicket, CloseTicket, Touch, SetRepo, SendMessage, Crash,
         StartScan, PageFails, FetchTasks, Answered, AnswerFails
<1> QED BY <1>6, <1>7

-----------------------------------------------------------------------------
(* The poller *)

Among(u, s) == \E i \in 1..Len(s) : s[i] = u

\* What Telegram answers: every update from the offset on, each once.
LEMMA ServedAll ==
  ASSUME sent \in Nat, NEW from \in Nat, from <= sent + 1, NEW s, s = Served(from)
  PROVE  /\ s \in Seq(1..sent)
         /\ \A u \in 1..sent : u >= from => Among(u, s)
         /\ s # <<>> => Last(s) = sent
<1> DEFINE first == IF from = 0 THEN 1 ELSE from
           n == sent + 1 - first
<1>1. first \in Nat \ {0} /\ first <= sent + 1 /\ n \in Nat /\ from <= first
      /\ (from # first => from = 0 /\ first = 1)
  OBVIOUS
<1>2. s = [i \in 1..n |-> first + i - 1]
  BY DEF Served
<1>3. n = sent + 1 - first
  OBVIOUS
<1> HIDE DEF first, n
<1>4. \A i \in 1..n : first + i - 1 \in 1..sent
  BY <1>1, <1>3
<1>5. s \in Seq(1..sent) /\ Len(s) = n /\ \A i \in 1..n : s[i] = first + i - 1
  BY <1>1, <1>2, <1>4
<1>6. ASSUME NEW u \in 1..sent, u >= from PROVE Among(u, s)
  <2>1. u - first + 1 \in 1..n /\ first + (u - first + 1) - 1 = u
    BY <1>1, <1>3, <1>6
  <2> QED BY <1>5, <2>1 DEF Among
<1>7. s # <<>> => Last(s) = sent
  <2> SUFFICES ASSUME s # <<>> PROVE Last(s) = sent
    OBVIOUS
  <2>1. n \in 1..n
    BY <1>1, <1>5
  <2>2. Last(s) = first + n - 1
    BY <1>5, <2>1 DEF Last
  <2> QED BY <1>1, <1>3, <2>2
<1> QED BY <1>4, <1>5, <1>6, <1>7

LEMMA HeadAndTail ==
  ASSUME NEW s \in Seq(Messages), s # <<>>
  PROVE  /\ Tail(s) \in Seq(Messages) /\ Head(s) = s[1] /\ Head(s) \in Messages
         /\ \A i \in 1..Len(s) : i # 1 => i - 1 \in 1..Len(Tail(s)) /\ Tail(s)[i - 1] = s[i]
<1>1. Len(s) \in Nat \ {0} /\ Len(Tail(s)) = Len(s) - 1
  OBVIOUS
<1> QED BY <1>1

\* The deliveries under way.
LEMMA HooksStep ==
  ASSUME Typed, [Next]_vars
  PROVE  hooks' \subseteq [item : Items, kind : {"created", "updated", "comment"}, own : BOOLEAN]
<1> SUFFICES ASSUME NEW e \in hooks'
             PROVE  e \in [item : Items, kind : {"created", "updated", "comment"}, own : BOOLEAN]
  OBVIOUS
<1>1. e \in hooks \/ \E item \in Items, kind \in {"created", "updated", "comment"}, own \in BOOLEAN :
                        e = Event(item, kind, own)
  <2>1. CASE UNCHANGED hooks
    BY <2>1
  <2>2. ASSUME NEW t \in Tickets, OpenTicket(t) \/ CloseTicket(t)
        PROVE  e \in hooks \/ e = Event(t, "created", FALSE) \/ e = Event(t, "updated", FALSE)
    BY <2>2 DEF OpenTicket, CloseTicket, Sends
  <2>3. ASSUME NEW item \in Items, NEW kind \in {"created", "updated", "comment"}, NEW own \in BOOLEAN,
               Touch(item, kind, own)
        PROVE  e \in hooks \/ e = Event(item, kind, own)
    BY <2>3 DEF Touch
  <2>4. ASSUME NEW d \in hooks, Webhook(d) PROVE e \in hooks
    BY <2>4 DEF Webhook, Taken
  <2>5. Tickets \subseteq Items
    BY DEF Items
  <2>6. \/ UNCHANGED hooks \/ \E t \in Tickets : OpenTicket(t) \/ CloseTicket(t)
        \/ \E item \in Items, kind \in {"created", "updated", "comment"}, own \in BOOLEAN : Touch(item, kind, own)
        \/ \E d \in hooks : Webhook(d)
    BY DEF Next, vars, forge, World, SetRepo, SendMessage, Clock, Operator, Crash,
           Work, StartScan, ReadPage, PageFails, FetchTasks, HandleTask, Answered, AnswerFails
  <2> QED BY <2>1, <2>2, <2>3, <2>4, <2>5, <2>6
<1>2. \A item \in Items, kind \in {"created", "updated", "comment"}, own \in BOOLEAN :
        Event(item, kind, own) \in [item : Items, kind : {"created", "updated", "comment"}, own : BOOLEAN]
  BY DEF Event
<1>3. hooks \subseteq [item : Items, kind : {"created", "updated", "comment"}, own : BOOLEAN]
  BY DEF Typed
<1> QED BY <1>1, <1>2, <1>3

Polling == SendMessage \/ FetchTasks \/ HandleTask \/ Answered \/ AnswerFails \/ Crash

LEMMA PollerRests ==
  ASSUME [Next]_vars, ~Polling
  PROVE  UNCHANGED poller
BY DEF Next, vars, Polling, poller, World, OpenTicket, CloseTicket, Touch, SetRepo, Clock, Operator,
       Work, Webhook, StartScan, ReadPage, PageFails

LEMMA NumbersStep ==
  ASSUME Typed, [Next]_vars
  PROVE  /\ sent' \in Nat /\ 1..sent' \subseteq Messages
         /\ offset' \in Nat /\ offset' <= sent' + 1 /\ confirmed' \in Nat /\ confirmed' <= sent' + 1
<1>0. /\ sent \in Nat /\ offset \in Nat /\ offset <= sent + 1 /\ confirmed \in Nat /\ confirmed <= sent + 1
  BY DEF Typed
<1>1. 1..sent \subseteq Messages
  BY DEF Typed
<1>2. CASE UNCHANGED <<sent, offset, confirmed>>
  BY <1>0, <1>1, <1>2
<1>3. CASE SendMessage
  <2>1. sent' = sent + 1 /\ sent + 1 \in Messages /\ offset' = offset /\ confirmed' = confirmed
    BY <1>3 DEF SendMessage
  <2>2. \A u \in 1..(sent + 1) : u \in 1..sent \/ u = sent + 1
    BY <1>0
  <2>3. 1..sent' \subseteq Messages
    BY <1>1, <2>1, <2>2
  <2>4. sent' \in Nat /\ offset' <= sent' + 1 /\ confirmed' <= sent' + 1
    BY <1>0, <2>1
  <2> QED BY <1>0, <2>1, <2>3, <2>4
<1>4. CASE FetchTasks
  <2>1. /\ confirmed' \in Nat /\ confirmed' <= sent + 1 /\ sent' = sent
    BY <1>0, <1>4 DEF FetchTasks
  <2>2. PICK updates : updates = Served(confirmed') /\ updates # <<>> /\ offset' = Last(updates) + 1
    BY <1>4 DEF FetchTasks
  <2>3. Last(updates) = sent
    BY <1>0, <2>1, <2>2, ServedAll
  <2>4. offset' \in Nat /\ offset' <= sent' + 1
    BY <1>0, <2>1, <2>2, <2>3
  <2> QED BY <1>0, <1>1, <2>1, <2>4
<1>5. CASE Crash
  BY <1>0, <1>1, <1>5 DEF Crash
<1>6. CASE ~(SendMessage \/ FetchTasks \/ Crash)
  <2>1. UNCHANGED <<sent, offset, confirmed>>
    BY <1>6, PollerRests DEF Polling, poller, HandleTask, Answered, AnswerFails
  <2> QED BY <1>2, <2>1
<1> QED BY <1>3, <1>4, <1>5, <1>6

LEMMA BatchStep ==
  ASSUME Typed, [Next]_vars
  PROVE  batch' \in Seq(Messages)
<1>0. batch \in Seq(Messages)
  BY DEF Typed
<1>1. CASE FetchTasks
  <2>1. sent \in Nat /\ 1..sent \subseteq Messages
    BY DEF Typed
  <2>2. batch' = Served(confirmed') /\ sent' = sent
    BY <1>1 DEF FetchTasks
  <2>3. confirmed' \in Nat /\ confirmed' <= sent + 1
    BY <2>2, NumbersStep
  <2>4. batch' \in Seq(1..sent)
    BY <2>1, <2>2, <2>3, ServedAll
  <2> QED BY <2>1, <2>4
<1>2. CASE HandleTask
  BY <1>0, <1>2, HeadAndTail DEF HandleTask
<1>3. CASE ~FetchTasks /\ ~HandleTask
  <2>1. batch' \in {batch, <<>>}
    BY <1>3, PollerRests DEF Polling, poller, SendMessage, Answered, AnswerFails, Crash
  <2>2. <<>> \in Seq(Messages)
    OBVIOUS
  <2> QED BY <1>0, <2>1, <2>2
<1> QED BY <1>1, <1>2, <1>3

LEMMA AnswerStep ==
  ASSUME Typed, RowFirst, [Next]_vars
  PROVE  /\ answering' \in [to : Messages \cup {0}, text : {"none", "which repo?", "accepted", "error"}]
         /\ told' \subseteq Messages
<1>0. /\ answering \in [to : Messages \cup {0}, text : {"none", "which repo?", "accepted", "error"}]
      /\ NoAnswer \in [to : Messages \cup {0}, text : {"none", "which repo?", "accepted", "error"}]
      /\ told \subseteq Messages /\ batch \in Seq(Messages)
  BY DEF Typed, NoAnswer
<1>1. CASE HandleTask
  <2>1. /\ told' = told /\ batch # <<>>
        /\ answering' \in {[to |-> Head(batch), text |-> "which repo?"], [to |-> Head(batch), text |-> "accepted"]}
    BY <1>1 DEF HandleTask
  <2>2. Head(batch) \in Messages
    BY <1>0, <2>1, HeadAndTail
  <2>3. \A text \in {"which repo?", "accepted"} :
          [to |-> Head(batch), text |-> text]
            \in [to : Messages \cup {0}, text : {"none", "which repo?", "accepted", "error"}]
    BY <2>2
  <2> QED BY <1>0, <2>1, <2>3
<1>2. CASE Answered
  <2>1. answering.text = "accepted" => answering.to \in Messages
    BY <1>0 DEF RowFirst
  <2> QED BY <1>0, <1>2, <2>1 DEF Answered
<1>3. CASE ~HandleTask /\ ~Answered
  <2>1. answering' \in {answering, NoAnswer, [answering EXCEPT !.text = "error"]} /\ told' = told
    BY <1>3, PollerRests DEF Polling, poller, SendMessage, FetchTasks, AnswerFails, Crash
  <2> QED BY <1>0, <2>1
<1> QED BY <1>1, <1>2, <1>3

LEMMA TypedStep ==
  ASSUME Typed, RowFirst, [Next]_vars
  PROVE  Typed'
BY RowsStep, HooksStep, NumbersStep, BatchStep, AnswerStep DEF Typed, RowsStay

LEMMA RowFirstStep ==
  ASSUME Typed, RowFirst, [Next]_vars
  PROVE  RowFirst'
<1>0. /\ told \subseteq Messages /\ Messages \subseteq Keys /\ 0 \notin Messages
      /\ answering \in [to : Messages \cup {0}, text : {"none", "which repo?", "accepted", "error"}]
      /\ batch \in Seq(Messages) /\ rows \in [Keys -> Row]
  BY IntakeConstants DEF Typed, Keys
<1>1. \A k \in Keys : rows[k].status # "absent" => rows'[k].status # "absent"
  BY RowsStep DEF RowsStay
<1>2. /\ \A u \in told : rows'[u].status # "absent"
      /\ answering.text = "accepted" =>
           answering.to \in Messages /\ rows[answering.to].status # "absent" /\ rows'[answering.to].status # "absent"
  BY <1>0, <1>1 DEF RowFirst
<1>3. CASE HandleTask
  <2>1. told' = told /\ batch # <<>>
    BY <1>3 DEF HandleTask
  <2>2. Head(batch) \in Messages
    BY <1>0, <2>1, HeadAndTail
  <2>3. \/ answering' = [to |-> Head(batch), text |-> "which repo?"]
        \/ /\ answering' = [to |-> Head(batch), text |-> "accepted"]
           /\ rows' = [rows EXCEPT ![Head(batch)] = [Upserted(@) EXCEPT !.status = "done"]]
    BY <1>3 DEF HandleTask
  <2>4. CASE answering' = [to |-> Head(batch), text |-> "which repo?"]
    BY <1>2, <2>1, <2>4 DEF RowFirst
  <2>5. CASE /\ answering' = [to |-> Head(batch), text |-> "accepted"]
             /\ rows' = [rows EXCEPT ![Head(batch)] = [Upserted(@) EXCEPT !.status = "done"]]
    <3>1. rows'[Head(batch)] = [Upserted(rows[Head(batch)]) EXCEPT !.status = "done"]
          /\ rows[Head(batch)] \in Row
      BY <1>0, <2>2, <2>5
    <3>2. Upserted(rows[Head(batch)]) \in Row
      BY <3>1, EnqueuedRow DEF Priority
    <3>3. rows'[Head(batch)].status = "done"
      BY <3>1, <3>2 DEF Row
    <3>4. answering'.to # 0 /\ answering'.to = Head(batch)
      BY <1>0, <2>2, <2>5
    <3> QED BY <1>2, <2>1, <3>3, <3>4 DEF RowFirst
  <2> QED BY <2>3, <2>4, <2>5
<1>4. CASE Answered
  <2>1. answering' = NoAnswer /\ told' = IF answering.text = "accepted" THEN told \cup {answering.to} ELSE told
    BY <1>4 DEF Answered
  <2> QED BY <1>2, <2>1 DEF RowFirst, NoAnswer
<1>5. CASE ~HandleTask /\ ~Answered
  <2>1. answering' \in {answering, NoAnswer, [answering EXCEPT !.text = "error"]} /\ told' = told
    BY <1>5, PollerRests DEF Polling, poller, SendMessage, FetchTasks, AnswerFails, Crash
  <2>2. answering'.text = "accepted" => answering' = answering
    <3>1. NoAnswer.text = "none" /\ [answering EXCEPT !.text = "error"].text = "error"
      BY <1>0 DEF NoAnswer
    <3> QED BY <2>1, <3>1
  <2>3. answering'.text = "accepted" => answering'.to # 0 /\ rows'[answering'.to].status # "absent"
    BY <1>0, <1>2, <2>2
  <2> QED BY <1>2, <2>1, <2>3 DEF RowFirst
<1> QED BY <1>3, <1>4, <1>5

LEMMA AccountedStep ==
  ASSUME Typed, Accounted, [Next]_vars
  PROVE  Accounted'
<1>0. /\ sent \in Nat /\ offset \in Nat /\ offset <= sent + 1 /\ confirmed \in Nat /\ confirmed <= sent + 1
      /\ batch \in Seq(Messages)
  BY DEF Typed
<1>1. /\ \A u \in 1..sent : u < confirmed => u \in handled \cup dropped
      /\ \A u \in 1..sent : u < offset => u \in handled \cup dropped \/ InBatch(u)
  BY DEF Accounted
<1>2. CASE UNCHANGED <<sent, offset, confirmed, batch, handled, dropped>>
  BY <1>1, <1>2 DEF Accounted, InBatch
<1>3. CASE SendMessage
  <2>1. sent' = sent + 1 /\ UNCHANGED <<offset, confirmed, batch, handled, dropped>>
    BY <1>3 DEF SendMessage
  <2>2. \A u \in 1..(sent + 1) : u < confirmed \/ u < offset => u \in 1..sent
    BY <1>0
  <2> QED BY <1>1, <2>1, <2>2 DEF Accounted, InBatch
<1>4. CASE FetchTasks
  <2>1. /\ confirmed' = IF offset > confirmed THEN offset ELSE confirmed
        /\ batch = <<>> /\ UNCHANGED <<sent, handled, dropped>> /\ batch' = Served(confirmed')
    BY <1>4 DEF FetchTasks
  <2>2. \A u \in 1..sent : ~InBatch(u)
    BY <2>1 DEF InBatch
  <2>3. \A u \in 1..sent : u < confirmed' => u < offset \/ u < confirmed
    BY <1>0, <2>1
  <2>4. \A u \in 1..sent : u < confirmed' => u \in handled \cup dropped
    BY <1>1, <2>2, <2>3
  <2>5. confirmed' \in Nat /\ confirmed' <= sent + 1
    BY <1>0, <2>1
  <2>6. \A u \in 1..sent : u >= confirmed' => Among(u, batch')
    <3>1. sent \in Nat
      BY <1>0
    <3>2. batch' = Served(confirmed')
      BY <2>1
    <3> QED BY <2>5, <3>1, <3>2, ServedAll
  <2>7. \A u \in 1..sent : u < confirmed' \/ u >= confirmed'
    BY <2>5
  <2> QED BY <2>1, <2>4, <2>6, <2>7 DEF Accounted, InBatch, Among
<1>5. CASE HandleTask
  <2>1. /\ batch # <<>> /\ batch' = Tail(batch) /\ handled' = handled \cup {Head(batch)}
        /\ UNCHANGED <<sent, offset, confirmed, dropped>>
    BY <1>5 DEF HandleTask
  <2>2. ASSUME NEW u \in 1..sent, InBatch(u) PROVE u = Head(batch) \/ InBatch(u)'
    <3>1. PICK i \in 1..Len(batch) : batch[i] = u
      BY <2>2 DEF InBatch
    <3>2. CASE i = 1
      BY <1>0, <2>1, <3>1, <3>2, HeadAndTail
    <3>3. CASE i # 1
      BY <1>0, <2>1, <3>1, <3>3, HeadAndTail DEF InBatch
    <3> QED BY <3>2, <3>3
  <2> QED BY <1>1, <2>1, <2>2 DEF Accounted
<1>6. CASE AnswerFails
  <2>1. UNCHANGED <<sent, offset, confirmed, handled>>
        /\ (UNCHANGED <<batch, dropped>> \/ (batch' = <<>> /\ dropped' = dropped \cup Range(batch)))
    BY <1>6 DEF AnswerFails
  <2>2. ASSUME batch' = <<>>, dropped' = dropped \cup Range(batch) PROVE Accounted'
    <3>1. \A u \in 1..sent : InBatch(u) => u \in Range(batch)
      <4>1. DOMAIN batch = 1..Len(batch)
        BY <1>0
      <4> QED BY <4>1 DEF InBatch, Range
    <3> QED BY <1>1, <2>1, <2>2, <3>1 DEF Accounted
  <2> QED BY <1>2, <2>1, <2>2
<1>7. CASE Crash
  <2>1. UNCHANGED <<sent, confirmed, handled, dropped>> /\ offset' = 0
    BY <1>7 DEF Crash
  <2>2. \A u \in 1..sent : ~(u < 0)
    BY <1>0
  <2> QED BY <1>1, <2>1, <2>2 DEF Accounted
<1>8. CASE ~(SendMessage \/ FetchTasks \/ HandleTask \/ AnswerFails \/ Crash)
  <2>1. UNCHANGED <<sent, offset, confirmed, batch, handled, dropped>>
    BY <1>8, PollerRests DEF Polling, poller, Answered
  <2> QED BY <1>2, <2>1
<1> QED BY <1>3, <1>4, <1>5, <1>6, <1>7, <1>8

-----------------------------------------------------------------------------
(* The theorem *)

LEMMA InitHolds == Init => Typed /\ Accounted /\ RowFirst
<1> SUFFICES ASSUME Init PROVE Typed /\ Accounted /\ RowFirst
  OBVIOUS
<1>1. Absent \in Row
  BY DEF Absent, Row, Priority
<1>2. rows \in [Keys -> Row] /\ hooks = {}
  BY <1>1 DEF Init
<1>3. /\ sent = 0 /\ offset = 0 /\ confirmed = 0 /\ batch = <<>> /\ answering = NoAnswer /\ told = {}
      /\ 1..0 = {} /\ <<>> \in Seq(Messages)
  BY DEF Init
<1>4. Typed
  BY <1>2, <1>3 DEF Typed, NoAnswer
<1>5. Accounted /\ RowFirst
  BY <1>3 DEF Accounted, RowFirst, NoAnswer
<1> QED BY <1>4, <1>5

\* The long poll of providers/telegram.ts confirms a batch before it is handled, yet a crash alone loses no
\* message: what Telegram will not serve again was handled, or dropped with a batch whose answer failed.
\* And a sender who was told that the task was accepted has a row for it.
THEOREM MessagesAreKept == Spec => []NothingForgotten
<1>1. Init => Typed /\ Accounted /\ RowFirst
  BY InitHolds
<1>2. (Typed /\ Accounted /\ RowFirst) /\ [Next]_vars => (Typed /\ Accounted /\ RowFirst)'
  BY TypedStep, AccountedStep, RowFirstStep
<1>3. Typed /\ Accounted /\ RowFirst => NothingForgotten
  BY DEF Accounted, RowFirst, NothingForgotten
<1> QED BY <1>1, <1>2, <1>3, PTL DEF Spec
=============================================================================
