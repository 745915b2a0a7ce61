-------------------------- MODULE DecisionsProofs --------------------------
(***************************************************************************)
(* What holds of decisions whatever operators, faults and crashes do: the  *)
(* types, that "executed" means done, and that nothing is done without a   *)
(* mandate.  Then what holds as long as one operator acts at a time, on    *)
(* what has been posted, the forge's errors are honest, and only the       *)
(* director dies.                                                          *)
(***************************************************************************)
EXTENDS Decisions, TLAPS

\* An execution under way is of a recorded decision, of the recorded type, and within its calls.
RunFits ==
  \A w \in Executors : run[w] # None =>
    /\ run[w].id <= last
    /\ TypeOf[run[w].payload] = TypeOf[row[run[w].id].draft]
    /\ run[w].call <= Calls(TypeOf[run[w].payload])

\* An edit is of the type of the decision it is for; the tick has none.
EditFits ==
  /\ edit[Director] = None
  /\ \A w \in Executors : \A id \in queue[w] :
       edit[w] # None => TypeOf[edit[w]] = TypeOf[row[id].draft]

\* A tick, and an admin request with decisions before it, have a configuration they were started with.
UnderFits ==
  /\ phase # "idle" => under[Director] \in Configs
  /\ \A o \in Admins : queue[o] # {} => under[o] \in Configs

\* The inductive invariant behind the types.
Typed == TypeOK /\ RunFits /\ EditFits /\ UnderFits

\* The calls an execution has behind it were done, at least once.
LandedSoFar ==
  \A w \in Executors : run[w] # None =>
    \A k \in 1 .. 2 : k < run[w].call \/ (k = run[w].call /\ run[w].sent) => landed[run[w].id][k] > 0

\* The operator's mandate for a decision.
Allowed(id) ==
  \E c \in Configs :
    /\ FlagOf[TypeOf[row[id].draft]] \in c.can
    /\ \/ id \in consent
       \/ c.mode = "full_auto"
       \/ c.mode = "semi_auto" /\ TypeOf[row[id].draft] # "merge_pr"

\* Executions have it from their first step on, and nothing was done to a decision not yet recorded.
AllowedRuns ==
  /\ \A w \in Executors : run[w] # None => Allowed(run[w].id)
  /\ \A id \in Ids : id > last => ~Acted(id)

-----------------------------------------------------------------------------

LEMMA CallsBound == \A t \in Types : Calls(t) \in 0 .. 2
BY DEF Calls

LEMMA RowTypes ==
  /\ AbsentRow \in Row
  /\ \A p \in Payloads : NewRow(p) \in Row
BY DEF AbsentRow, NewRow, Row, Outcomes

LEMMA InitTyped == Init => Typed
<1> SUFFICES ASSUME Init PROVE Typed
  OBVIOUS
<1>1. TypeOK
  BY DecisionConstants, RowTypes DEF Init, TypeOK, AbsentRow, Ids, Outcomes, Phases
<1>2. RunFits /\ EditFits /\ UnderFits
  BY DEF Init, RunFits, EditFits, UnderFits, Executors, Operators
<1> QED BY <1>1, <1>2 DEF Typed

\* The tick records one more decision, as pending.
LEMMA OneMore ==
  ASSUME TypeOK, RecordNext
  PROVE  /\ last \in Nat /\ last' = last + 1 /\ last' \in Ids /\ last' \in 1 .. last'
         /\ \A id \in 1 .. last : id \in Ids /\ id # last' /\ id \in 1 .. last' /\ row'[id] = row[id]
         /\ \A id \in 1 .. last' : id \in 1 .. last \/ id = last'
         /\ \A id \in Ids \ {last'} : row'[id] = row[id] /\ (id > last' <=> id > last)
         /\ \A w \in Executors \ {Director} : queue'[w] = queue[w]
         /\ \E p \in Payloads :
              /\ row' = [row EXCEPT ![last'] = NewRow(p)] /\ row'[last'] = NewRow(p)
              /\ \/ ~Duplicate(p) /\ queue'[Director] = queue[Director] \cup {last'} /\ phase' = "recording"
                 \/ Duplicate(p) /\ queue' = queue /\ phase' = "marking"
         /\ UNCHANGED <<config, under, edit, run, landed, did, consent>>
<1>0. /\ last \in 0 .. MaxRows /\ MaxRows \in Nat /\ Ids = 1 .. MaxRows /\ last < MaxRows /\ last' = last + 1
      /\ row \in [Ids -> Row] /\ queue \in [Executors -> SUBSET (1 .. last)] /\ Director \in Executors
  BY DecisionConstants DEF TypeOK, RecordNext, Ids, Executors
<1>1. PICK p \in Payloads :
        /\ row' = [row EXCEPT ![last'] = NewRow(p)]
        /\ \/ ~Duplicate(p) /\ queue' = [queue EXCEPT ![Director] = @ \cup {last'}] /\ phase' = "recording"
           \/ Duplicate(p) /\ queue' = queue /\ phase' = "marking"
  BY DEF RecordNext
<1>2. last' \in Ids /\ \A id \in Ids : (id > last' <=> id > last) \/ id = last'
  BY <1>0
<1>3. \A id \in 1 .. last : id \in Ids /\ id # last' /\ id \in 1 .. last'
  BY <1>0
<1>4. row'[last'] = NewRow(p) /\ \A id \in Ids \ {last'} : row'[id] = row[id]
  BY <1>0, <1>1, <1>2
<1>5. /\ \A w \in Executors \ {Director} : queue'[w] = queue[w]
      /\ \/ ~Duplicate(p) /\ queue'[Director] = queue[Director] \cup {last'} /\ phase' = "recording"
         \/ Duplicate(p) /\ queue' = queue /\ phase' = "marking"
  BY <1>0, <1>1
<1>6. UNCHANGED <<config, under, edit, run, landed, did, consent>>
  BY DEF RecordNext
<1>7. last \in Nat /\ last' \in 1 .. last' /\ \A id \in 1 .. last' : id \in 1 .. last \/ id = last'
  BY <1>0
<1>8. \A id \in 1 .. last : id \in Ids /\ id # last' /\ id \in 1 .. last' /\ row'[id] = row[id]
  BY <1>3, <1>4
<1>9. \A id \in Ids \ {last'} : row'[id] = row[id] /\ (id > last' <=> id > last)
  BY <1>2, <1>4
<1> QED BY ONLY <1>0, <1>1, <1>2, <1>4, <1>5, <1>6, <1>7, <1>8, <1>9, ZenonT(60)

LEMMA NewRowFields ==
  \A p : /\ NewRow(p).outcome = "pending" /\ NewRow(p).draft = p /\ NewRow(p).payload = p
         /\ NewRow(p).old = FALSE /\ NewRow(p).posted = FALSE
BY DEF NewRow

\* What is queued is recorded.
LEMMA QueuedIds == TypeOK => \A w \in Executors : queue[w] \subseteq Ids /\ queue[w] \subseteq 1 .. last
BY DecisionConstants DEF TypeOK, Ids

\* A step keeps the rows: it records and forgets none, and a payload changes within its type.
RowsKept ==
  /\ row' \in [Ids -> Row]
  /\ \A i \in Ids :
       /\ row'[i].draft = row[i].draft
       /\ row'[i].outcome = "absent" <=> row[i].outcome = "absent"
       /\ i <= last => row'[i].payload \in Payloads /\ TypeOf[row'[i].payload] = TypeOf[row[i].draft]

\* The executions a step changes fit the rows before it.
RunsKept ==
  /\ run' \in [Executors -> Run \cup {None}]
  /\ \A w \in Executors : run'[w] # None /\ run'[w] # run[w] =>
       /\ run'[w].id <= last
       /\ TypeOf[run'[w].payload] = TypeOf[row[run'[w].id].draft]
       /\ run'[w].call <= Calls(TypeOf[run'[w].payload])

\* Nobody gets a decision to look at, or an edit.
QueuesKept ==
  /\ queue' \in [Executors -> SUBSET (1 .. last)]
  /\ edit' \in [Executors -> Payloads \cup {None}]
  /\ \A w \in Executors : queue'[w] \subseteq queue[w] /\ edit'[w] \in {edit[w], None}

\* Executors keep their configurations.
UnderKept == under' \in [Executors -> Configs \cup {None}] /\ UnderFits'

LEMMA UnderSame ==
  ASSUME Typed, QueuesKept, under' = under, phase' \in {phase, "idle"}
  PROVE  UnderKept
BY DEF Typed, TypeOK, QueuesKept, UnderFits, UnderKept, Executors, Operators

\* Most steps keep the types because of that.
LEMMA KeptTyped ==
  ASSUME Typed, RowsKept, RunsKept, QueuesKept, UnderKept, last' = last,
         config' \in Configs, phase' \in Phases,
         landed' \in [Ids -> [1 .. 2 -> 0 .. 2]], did' \in [Ids -> SUBSET Payloads],
         consent' \subseteq 1 .. last
  PROVE  Typed'
<1>1. TypeOK'
  <2>1. \A id \in Ids : /\ row'[id].outcome = "absent" <=> id > last
                        /\ id <= last => /\ {row'[id].draft, row'[id].payload} \subseteq Payloads
                                         /\ TypeOf[row'[id].payload] = TypeOf[row'[id].draft]
    BY DEF Typed, TypeOK, RowsKept
  <2>2. last' \in 0 .. MaxRows
    BY DEF Typed, TypeOK
  <2>3. queue' \in [Executors -> SUBSET (1 .. last')] /\ consent' \subseteq 1 .. last'
    BY DEF QueuesKept
  <2>4. \A id \in Ids : row'[id].outcome = "absent" <=> id > last'
    BY <2>1
  <2>5. \A id \in Ids : id <= last' => /\ {row'[id].draft, row'[id].payload} \subseteq Payloads
                                       /\ TypeOf[row'[id].payload] = TypeOf[row'[id].draft]
    BY <2>1
  <2> QED BY <2>2, <2>3, <2>4, <2>5 DEF TypeOK, RowsKept, RunsKept, QueuesKept, UnderKept
<1>2. RunFits'
  <2> SUFFICES ASSUME NEW v \in Executors, run'[v] # None
               PROVE  /\ run'[v].id <= last
                      /\ TypeOf[run'[v].payload] = TypeOf[row'[run'[v].id].draft]
                      /\ run'[v].call <= Calls(TypeOf[run'[v].payload])
    BY DEF RunFits
  <2>1. run'[v].id \in Ids
    BY DEF RunsKept, Run
  <2>2. row'[run'[v].id].draft = row[run'[v].id].draft
    BY <2>1 DEF RowsKept
  <2>3. CASE run'[v] = run[v]
    BY <2>2, <2>3 DEF Typed, RunFits
  <2>4. CASE run'[v] # run[v]
    BY <2>2, <2>4 DEF RunsKept
  <2> QED BY <2>3, <2>4
<1>3. EditFits'
  <2> SUFFICES ASSUME NEW w \in Executors, NEW id \in queue'[w], edit'[w] # None
               PROVE  TypeOf[edit'[w]] = TypeOf[row'[id].draft]
    BY DEF EditFits, Typed, QueuesKept, Executors
  <2>1. id \in queue[w] /\ edit'[w] = edit[w]
    BY DEF QueuesKept
  <2>2. row'[id].draft = row[id].draft
    BY <2>1, QueuedIds DEF Typed, RowsKept
  <2> QED BY <2>1, <2>2 DEF Typed, EditFits
<1> QED BY <1>1, <1>2, <1>3 DEF Typed, UnderKept

\* How the rows are kept by each statement: an outcome, a payload of the same type with an outcome,
\* the posting of a proposal, age.
LEMMA RowFacts ==
  ASSUME Typed
  PROVE  /\ row' = row => RowsKept
         /\ \A id \in 1 .. last, p \in Payloads, o \in Outcomes : TypeOf[p] = TypeOf[row[id].draft] =>
              (row' = [row EXCEPT ![id].payload = p, ![id].outcome = o] => RowsKept)
         /\ \A id \in 1 .. last, p \in Payloads : TypeOf[p] = TypeOf[row[id].draft] =>
              (row' = [row EXCEPT ![id].payload = p] => RowsKept)
         /\ \A id \in 1 .. last, o \in Outcomes : Settle(id, o) => RowsKept
         /\ \A id \in 1 .. last :
              row' = [row EXCEPT ![id].outcome = "pending", ![id].posted = TRUE] => RowsKept
         /\ \A id \in 1 .. last : row' = [row EXCEPT ![id].old = TRUE] => RowsKept
<1>0. /\ row \in [Ids -> Row]
      /\ \A id \in Ids : /\ row[id].outcome = "absent" <=> id > last
                         /\ id <= last => /\ row[id].payload \in Payloads
                                          /\ TypeOf[row[id].payload] = TypeOf[row[id].draft]
      /\ \A id \in 1 .. last : id \in Ids /\ id <= last /\ row[id].outcome # "absent"
  BY DecisionConstants DEF Typed, TypeOK, Ids
<1>1. \A id \in 1 .. last, r \in Row :
        /\ row' = [row EXCEPT ![id] = r]
        /\ r.draft = row[id].draft /\ r.outcome # "absent"
        /\ r.payload \in Payloads /\ TypeOf[r.payload] = TypeOf[row[id].draft]
        => RowsKept
  BY <1>0 DEF RowsKept
<1>2. row' = row => RowsKept
  BY <1>0 DEF RowsKept
<1>3. ASSUME NEW id \in 1 .. last, NEW p \in Payloads, NEW o \in Outcomes,
             TypeOf[p] = TypeOf[row[id].draft],
             row' = [row EXCEPT ![id].payload = p, ![id].outcome = o]
      PROVE  RowsKept
  <2> DEFINE r == [row[id] EXCEPT !.payload = p, !.outcome = o]
  <2>0. row[id] \in Row
    BY <1>0
  <2>1. r \in Row
    BY <2>0 DEF Row, Outcomes
  <2>2. row' = [row EXCEPT ![id] = r]
    BY <1>0, <1>3
  <2>3. r.draft = row[id].draft /\ r.payload = p /\ r.outcome = o /\ o # "absent"
    BY <2>0 DEF Row, Outcomes
  <2> HIDE DEF r
  <2> QED BY <1>1, <1>3, <2>1, <2>2, <2>3
<1>4. ASSUME NEW id \in 1 .. last, NEW p \in Payloads, TypeOf[p] = TypeOf[row[id].draft],
             row' = [row EXCEPT ![id].payload = p]
      PROVE  RowsKept
  <2> DEFINE r == [row[id] EXCEPT !.payload = p]
  <2>0. row[id] \in Row
    BY <1>0
  <2>1. r \in Row
    BY <2>0 DEF Row, Outcomes
  <2>2. row' = [row EXCEPT ![id] = r]
    BY <1>0, <1>4
  <2>3. r.draft = row[id].draft /\ r.payload = p /\ r.outcome = row[id].outcome
    BY <2>0 DEF Row, Outcomes
  <2> HIDE DEF r
  <2> QED BY <1>0, <1>1, <1>4, <2>1, <2>2, <2>3
<1>5. ASSUME NEW id \in 1 .. last, NEW o \in Outcomes, Settle(id, o)
      PROVE  RowsKept
  <2> DEFINE r == [row[id] EXCEPT !.outcome = o]
  <2>0. row[id] \in Row
    BY <1>0
  <2>1. r \in Row
    BY <2>0 DEF Row, Outcomes
  <2>2. row' = [row EXCEPT ![id] = r]
    BY <1>0, <1>5 DEF Settle
  <2>3. r.draft = row[id].draft /\ r.payload = row[id].payload /\ r.outcome = o /\ o # "absent"
    BY <2>0 DEF Row, Outcomes
  <2> HIDE DEF r
  <2> QED BY <1>0, <1>1, <2>1, <2>2, <2>3, ZenonT(30)
<1>6. ASSUME NEW id \in 1 .. last, row' = [row EXCEPT ![id].outcome = "pending", ![id].posted = TRUE]
      PROVE  RowsKept
  <2> DEFINE r == [row[id] EXCEPT !.outcome = "pending", !.posted = TRUE]
  <2>0. row[id] \in Row
    BY <1>0
  <2>1. r \in Row
    BY <2>0 DEF Row, Outcomes
  <2>2. row' = [row EXCEPT ![id] = r]
    BY <1>0, <1>6
  <2>3. r.draft = row[id].draft /\ r.payload = row[id].payload /\ r.outcome # "absent"
    BY <2>0 DEF Row, Outcomes
  <2> HIDE DEF r
  <2> QED BY <1>0, <1>1, <2>1, <2>2, <2>3, ZenonT(30)
<1>7. ASSUME NEW id \in 1 .. last, row' = [row EXCEPT ![id].old = TRUE]
      PROVE  RowsKept
  <2> DEFINE r == [row[id] EXCEPT !.old = TRUE]
  <2>0. row[id] \in Row
    BY <1>0
  <2>1. r \in Row
    BY <2>0 DEF Row, Outcomes
  <2>2. row' = [row EXCEPT ![id] = r]
    BY <1>0, <1>7
  <2>3. r.draft = row[id].draft /\ r.payload = row[id].payload /\ r.outcome = row[id].outcome
    BY <2>0 DEF Row, Outcomes
  <2> HIDE DEF r
  <2> QED BY <1>0, <1>1, <2>1, <2>2, <2>3, ZenonT(30)
<1> QED BY <1>2, <1>3, <1>4, <1>5, <1>6, <1>7

\* Entering runDecision.
LEMMA CarryTyped ==
  ASSUME Typed, NEW w \in Executors, NEW id \in 1 .. last, NEW p \in Payloads,
         TypeOf[p] = TypeOf[row[id].draft], Carry(w, id, p)
  PROVE  RowsKept /\ RunsKept
<1>0. /\ id \in Ids /\ row[id].payload \in Payloads /\ TypeOf[row[id].payload] = TypeOf[row[id].draft]
      /\ TypeOf[p] \in Types /\ run \in [Executors -> Run \cup {None}]
  BY DecisionConstants DEF Typed, TypeOK, Ids
<1>1. Stored(w, id, p) \in Payloads /\ TypeOf[Stored(w, id, p)] = TypeOf[row[id].draft]
  BY <1>0 DEF Stored
<1>2. CASE Calls(TypeOf[p]) > 0
  <2> DEFINE r == [id |-> id, payload |-> p, call |-> 1, attempt |-> 0, sent |-> FALSE]
  <2>1. run' = [run EXCEPT ![w] = r] /\ row' = [row EXCEPT ![id].payload = Stored(w, id, p)]
    BY <1>2 DEF Carry
  <2>2. r \in Run /\ r.id = id /\ r.payload = p /\ r.call = 1
    BY <1>0, DecisionConstants DEF Run
  <2>3. 1 <= Calls(TypeOf[p])
    BY <1>0, <1>2, CallsBound
  <2> HIDE DEF r
  <2>4. RunsKept
    BY <1>0, <2>1, <2>2, <2>3 DEF RunsKept
  <2> QED BY <1>1, <2>1, <2>4, RowFacts
<1>3. CASE ~(Calls(TypeOf[p]) > 0)
  <2>1. PICK o \in Outcomes : row' = [row EXCEPT ![id].payload = Stored(w, id, p), ![id].outcome = o]
    BY <1>3 DEF Carry, Outcomes
  <2>2. run' = run
    BY <1>3 DEF Carry
  <2> QED BY <1>0, <1>1, <2>1, <2>2, RowFacts DEF RunsKept
<1> QED BY <1>2, <1>3

LEMMA TickTyped ==
  ASSUME Typed,
         \/ BeginTick \/ NoDecision \/ BeginActing \/ EndTick \/ BeginRound \/ RecordNext \/ MarkTwin
         \/ \E id \in Ids : ExecuteNext(id)
  PROVE  Typed' /\ (RowsKept \/ RecordNext)
<1> USE DEF Typed
<1>0. /\ run' = run => RunsKept
      /\ row' = row => RowsKept
      /\ queue' = queue /\ edit' = edit => QueuesKept
  BY RowFacts DEF TypeOK, RunsKept, QueuesKept
<1>1. CASE BeginTick \/ NoDecision \/ BeginActing \/ EndTick
  <2>1. RowsKept /\ RunsKept /\ QueuesKept
    BY <1>0, <1>1 DEF BeginTick, NoDecision, BeginActing, EndTick
  <2>2. /\ last' = last /\ config' \in Configs
        /\ phase' \in Phases /\ landed' = landed /\ did' = did /\ consent' = consent
    BY <1>1 DEF BeginTick, NoDecision, BeginActing, EndTick, TypeOK, Phases
  <2>3. UnderKept
    <3>1. Director \in Executors /\ Director \notin Admins /\ Admins \subseteq Executors
      BY DecisionConstants DEF Executors, Operators
    <3> QED BY <1>1, <3>1 DEF BeginTick, NoDecision, BeginActing, EndTick, TypeOK, UnderFits, UnderKept
  <2> QED BY <2>1, <2>2, <2>3, KeptTyped DEF TypeOK
<1>2. CASE MarkTwin
  <2>1. RowsKept
    <3>1. CASE last = 0
      <4>1. last \notin Ids
        BY <3>1, DecisionConstants DEF Ids
      <4>2. row' = row
        BY <1>2, <4>1 DEF MarkTwin, Settle, TypeOK
      <4> QED BY <1>0, <4>2
    <3>2. CASE last # 0
      <4>1. last \in 1 .. last /\ Settle(last, "skipped")
        BY <1>2, <3>2, DecisionConstants DEF MarkTwin, TypeOK
      <4> QED BY <4>1, RowFacts DEF Outcomes
    <3> QED BY <3>1, <3>2
  <2>2. RunsKept /\ QueuesKept
    BY <1>0, <1>2 DEF MarkTwin
  <2>3. UnderKept
    BY <1>2 DEF MarkTwin, TypeOK, UnderFits, UnderKept
  <2>4. last' = last /\ config' \in Configs /\ phase' \in Phases /\ landed' = landed /\ did' = did /\ consent' = consent
    BY <1>2 DEF MarkTwin, TypeOK, Phases
  <2> QED BY <2>1, <2>2, <2>3, <2>4, KeptTyped DEF TypeOK
<1>4. CASE BeginRound
  <2>1. \A id \in Ids : /\ row[id] \in Row
                        /\ row'[id] \in {row[id], [row[id] EXCEPT !.outcome = "expired"]}
                        /\ row'[id] # row[id] => row[id].outcome = "pending"
    BY <1>4 DEF BeginRound, Stale, TypeOK
  <2>2. ASSUME NEW id \in Ids
        PROVE  /\ row'[id] \in Row /\ row'[id].draft = row[id].draft /\ row'[id].payload = row[id].payload
               /\ row'[id].outcome = "absent" <=> row[id].outcome = "absent"
    <3> DEFINE x == [row[id] EXCEPT !.outcome = "expired"]
    <3>1. row[id] \in Row /\ row'[id] \in {row[id], x} /\ (row'[id] # row[id] => row[id].outcome = "pending")
      BY <2>1 DEF x
    <3>2. x \in Row /\ x.draft = row[id].draft /\ x.payload = row[id].payload /\ x.outcome = "expired"
      BY <3>1 DEF Row, Outcomes, x
    <3> HIDE DEF x
    <3> QED BY <3>1, <3>2
  <2>3. row' \in [Ids -> Row]
    <3>1. row' = [id \in Ids |-> row'[id]]
      BY <1>4 DEF BeginRound
    <3> QED BY <2>2, <3>1
  <2>4. RowsKept
    BY <2>2, <2>3 DEF RowsKept, TypeOK
  <2>5. RunsKept /\ QueuesKept
    BY <1>0, <1>4 DEF BeginRound
  <2>6. UnderKept
    <3>1. Director \in Executors /\ Director \notin Admins /\ Admins \subseteq Executors
      BY DecisionConstants DEF Executors, Operators
    <3> QED BY <1>4, <3>1 DEF BeginRound, TypeOK, UnderFits, UnderKept
  <2> QED BY <1>4, <2>4, <2>5, <2>6, KeptTyped DEF BeginRound, TypeOK, Phases
<1>5. CASE RecordNext
  <2>1. PICK p \in Payloads :
          /\ row' = [row EXCEPT ![last'] = NewRow(p)] /\ row'[last'] = NewRow(p)
          /\ \/ queue'[Director] = queue[Director] \cup {last'} /\ phase' = "recording"
             \/ queue' = queue /\ phase' = "marking"
    BY <1>5, OneMore
  <2>2. /\ last \in Nat /\ last' = last + 1 /\ last' \in Ids /\ last' \in 1 .. last' /\ last' \in 0 .. MaxRows
        /\ 1 .. last \subseteq 1 .. last'
        /\ \A id \in 1 .. last : id \in Ids /\ id # last' /\ row'[id] = row[id]
        /\ \A id \in Ids \ {last'} : row'[id] = row[id] /\ (id > last' <=> id > last)
        /\ \A w \in Executors \ {Director} : queue'[w] = queue[w]
        /\ UNCHANGED <<config, under, edit, run, landed, did, consent>>
    BY <1>5, OneMore, DecisionConstants DEF Ids
  <2>3. TypeOK'
    <3>1. row' \in [Ids -> Row]
      BY <2>1, <2>2, RowTypes DEF TypeOK
    <3>2. \A id \in Ids : row'[id].outcome = "absent" <=> id > last'
      <4>1. row'[last'].outcome # "absent" /\ ~(last' > last')
        BY <2>1, <2>2, NewRowFields
      <4> QED BY <2>2, <4>1 DEF TypeOK
    <3>3. ASSUME NEW id \in Ids, id <= last'
          PROVE  /\ {row'[id].draft, row'[id].payload} \subseteq Payloads
                 /\ TypeOf[row'[id].payload] = TypeOf[row'[id].draft]
      <4>1. CASE id = last'
        BY <2>1, <4>1, NewRowFields
      <4>2. CASE id # last'
        <5>1. row'[id] = row[id] /\ id <= last
          BY <2>2, <3>3, <4>2 DEF Ids
        <5> QED BY <5>1 DEF TypeOK
      <4> QED BY <4>1, <4>2
    <3>4. queue' \in [Executors -> SUBSET (1 .. last')]
      <4>1. \A w \in Executors : queue'[w] \subseteq 1 .. last'
        BY <2>1, <2>2 DEF TypeOK, Executors
      <4>2. queue' = [w \in Executors |-> queue'[w]]
        BY <1>5 DEF RecordNext, TypeOK
      <4> QED BY <4>1, <4>2
    <3>5. phase' \in Phases
      BY <2>1 DEF Phases
    <3>6. consent' \subseteq 1 .. last'
      BY <2>2 DEF TypeOK
    <3> QED BY <2>2, <3>1, <3>2, <3>3, <3>4, <3>5, <3>6 DEF TypeOK
  <2>4. RunFits'
    <3>1. \A w \in Executors : run[w] # None => run[w].id \in 1 .. last
      BY DecisionConstants DEF TypeOK, Run, Ids, RunFits
    <3> QED BY <2>2, <3>1 DEF RunFits
  <2>5. EditFits'
    <3>1. \A w \in Executors : \A id \in queue[w] : row'[id] = row[id]
      BY <2>2, QueuedIds
    <3> SUFFICES ASSUME NEW w \in Executors, NEW id \in queue'[w], edit'[w] # None
                 PROVE  TypeOf[edit'[w]] = TypeOf[row'[id].draft]
      BY <2>2 DEF EditFits
    <3>2. w # Director /\ id \in queue[w]
      BY <2>2 DEF EditFits
    <3> QED BY <2>2, <3>1, <3>2 DEF EditFits
  <2>6. UnderFits'
    <3>1. \A o \in Admins : o # Director /\ o \in Executors /\ queue'[o] = queue[o]
      BY <2>2, DecisionConstants DEF Executors, Operators
    <3> QED BY <1>5, <2>2, <3>1 DEF RecordNext, UnderFits
  <2> QED BY <1>5, <2>3, <2>4, <2>5, <2>6
<1>6. ASSUME NEW id \in Ids, ExecuteNext(id) PROVE Typed' /\ RowsKept
  <2> DEFINE p == row[id].draft
  <2>1. /\ Director \in Executors /\ id \in queue[Director] /\ id \in 1 .. last
        /\ p \in Payloads /\ row[id].payload \in Payloads
    BY <1>6, QueuedIds DEF ExecuteNext, Head, TypeOK, Executors
  <2>2. QueuesKept
    BY <1>6, <2>1 DEF ExecuteNext, TypeOK, QueuesKept
  <2>3. \/ \E o \in Outcomes : Settle(id, o) /\ run' = run
        \/ row' = [row EXCEPT ![id].outcome = "pending", ![id].posted = TRUE] /\ run' = run
        \/ Carry(Director, id, p)
    BY <1>6 DEF ExecuteNext, Outcomes
  <2>4. RowsKept /\ RunsKept
    <3>1. CASE \E o \in Outcomes : Settle(id, o) /\ run' = run
      BY <1>0, <2>1, <3>1, RowFacts
    <3>2. CASE row' = [row EXCEPT ![id].outcome = "pending", ![id].posted = TRUE] /\ run' = run
      BY <1>0, <2>1, <3>2, RowFacts
    <3>3. CASE Carry(Director, id, p)
      BY <2>1, <3>3, CarryTyped
    <3> QED BY <2>3, <3>1, <3>2, <3>3
  <2>5. UnderKept
    BY <1>6, <2>2, UnderSame DEF ExecuteNext
  <2> QED BY <1>6, <2>2, <2>4, <2>5, KeptTyped DEF ExecuteNext, TypeOK
<1> QED BY <1>1, <1>2, <1>4, <1>5, <1>6

\* What an execution is changed to when it goes on.
LEMMA RunUpdated ==
  ASSUME Typed, NEW w \in Executors, NEW r, run' = [run EXCEPT ![w] = r],
         r \in Run, run[w] # None, r.id = run[w].id, r.payload = run[w].payload,
         r.call <= Calls(TypeOf[r.payload])
  PROVE  RunsKept
BY DEF Typed, TypeOK, RunFits, RunsKept

\* ... and when it ends.
LEMMA RunEnded ==
  ASSUME Typed, NEW w \in Executors, run' = [run EXCEPT ![w] = None]
  PROVE  RunsKept
BY DEF Typed, TypeOK, RunsKept

LEMMA RunStepTyped ==
  ASSUME Typed, NEW w \in Executors, RunStep(w)
  PROVE  Typed' /\ RowsKept
<1> DEFINE r == run[w]
<1>0. /\ run[w] \in Run /\ run[w] # None /\ run[w].id \in 1 .. last /\ run[w].id \in Ids
      /\ TypeOf[run[w].payload] \in Types /\ run[w].call <= Calls(TypeOf[run[w].payload])
  <2>1. run[w] # None /\ run[w] \in Run
    BY DEF RunStep, Lands, Answered, Retry, GiveUp, Errs, Typed, TypeOK
  <2>2. run[w].id <= last /\ run[w].call <= Calls(TypeOf[run[w].payload])
    BY <2>1 DEF Typed, RunFits
  <2> QED BY <2>1, <2>2, DecisionConstants DEF Run, Ids, Typed, TypeOK
<1>1. QueuesKept
  BY DEF RunStep, Lands, Answered, Retry, GiveUp, Typed, TypeOK, QueuesKept
<1>2. RowsKept
  <2>1. row' = row \/ \E o \in Outcomes : Settle(run[w].id, o)
    BY DEF RunStep, Lands, Answered, Retry, GiveUp, Outcomes
  <2> QED BY <1>0, <2>1, RowFacts
<1>3. RunsKept
  <2>1. CASE Lands(w)
    <3> DEFINE x == [r EXCEPT !.sent = TRUE]
    <3>1. x \in Run /\ x.id = r.id /\ x.payload = r.payload /\ x.call = r.call
      BY <1>0 DEF Run
    <3>2. run' = [run EXCEPT ![w] = x]
      BY <2>1 DEF Lands
    <3> HIDE DEF x
    <3> QED BY <1>0, <3>1, <3>2, RunUpdated
  <2>2. CASE Answered(w)
    <3>1. CASE r.call < Calls(TypeOf[r.payload])
      <4> DEFINE x == [r EXCEPT !.call = @ + 1, !.sent = FALSE]
      <4>1. r.call + 1 \in 1 .. 2 /\ r.call + 1 <= Calls(TypeOf[r.payload])
        BY <1>0, <3>1, CallsBound DEF Run
      <4>2. x \in Run /\ x.id = r.id /\ x.payload = r.payload /\ x.call = r.call + 1
        BY <1>0, <4>1 DEF Run
      <4>3. run' = [run EXCEPT ![w] = x]
        BY <2>2, <3>1 DEF Answered
      <4> HIDE DEF x
      <4> QED BY <1>0, <4>1, <4>2, <4>3, RunUpdated
    <3>2. CASE ~(r.call < Calls(TypeOf[r.payload]))
      <4>1. run' = [run EXCEPT ![w] = None]
        BY <2>2, <3>2 DEF Answered
      <4> QED BY <4>1, RunEnded
    <3> QED BY <3>1, <3>2
  <2>3. CASE Retry(w)
    <3> DEFINE x == [r EXCEPT !.call = 1, !.attempt = @ + 1, !.sent = FALSE]
    <3>1. r.attempt + 1 \in 0 .. Retries
      BY <1>0, <2>3, DecisionConstants DEF Retry, Run
    <3>2. x \in Run /\ x.id = r.id /\ x.payload = r.payload /\ x.call = 1
      <4> DEFINE x1 == [r EXCEPT !.call = 1]
                 x2 == [x1 EXCEPT !.attempt = r.attempt + 1]
      <4>1. x1 \in Run /\ x1.id = r.id /\ x1.payload = r.payload /\ x1.call = 1
        BY <1>0 DEF Run
      <4>2. x2 \in Run /\ x2.id = r.id /\ x2.payload = r.payload /\ x2.call = 1
        <5> HIDE DEF x1
        <5> QED BY <3>1, <4>1 DEF Run
      <4>3. x = [x2 EXCEPT !.sent = FALSE]
        BY Zenon
      <4> HIDE DEF x1, x2, x
      <4> QED BY <4>2, <4>3 DEF Run
    <3>3. run' = [run EXCEPT ![w] = x]
      BY <2>3 DEF Retry
    <3>4. 1 <= Calls(TypeOf[r.payload])
      BY <1>0, CallsBound DEF Run
    <3> HIDE DEF x
    <3> QED BY <1>0, <3>2, <3>3, <3>4, RunUpdated
  <2>4. CASE GiveUp(w)
    <3>1. run' = [run EXCEPT ![w] = None]
      BY <2>4 DEF GiveUp
    <3> QED BY <3>1, RunEnded
  <2> QED BY <2>1, <2>2, <2>3, <2>4 DEF RunStep
<1>4. landed' \in [Ids -> [1 .. 2 -> 0 .. 2]]
  <2>1. CASE Lands(w)
    <3> DEFINE n == IF landed[r.id][r.call] < 2 THEN landed[r.id][r.call] + 1 ELSE landed[r.id][r.call]
    <3>1. landed \in [Ids -> [1 .. 2 -> 0 .. 2]] /\ r.call \in 1 .. 2
      BY <1>0 DEF Run, Typed, TypeOK
    <3>2. n \in 0 .. 2
      BY <1>0, <3>1
    <3>3. landed' = [landed EXCEPT ![r.id] = [landed[r.id] EXCEPT ![r.call] = n]]
      BY <2>1 DEF Lands
    <3> HIDE DEF n
    <3> QED BY <1>0, <3>1, <3>2, <3>3
  <2>2. CASE landed' = landed
    BY <2>2 DEF Typed, TypeOK
  <2> QED BY <2>1, <2>2 DEF RunStep, Answered, Retry, GiveUp
<1>5. did' \in [Ids -> SUBSET Payloads]
  BY <1>0 DEF RunStep, Lands, Answered, Retry, GiveUp, Typed, TypeOK, Run
<1>6. /\ last' = last /\ config' \in Configs /\ under' = under /\ phase' = phase
      /\ phase' \in Phases /\ consent' \subseteq 1 .. last
  BY DEF RunStep, Lands, Answered, Retry, GiveUp, Typed, TypeOK
<1>7. UnderKept
  BY <1>1, <1>6, UnderSame
<1> QED BY <1>1, <1>2, <1>3, <1>4, <1>5, <1>6, <1>7, KeptTyped

LEMMA OperatorTyped ==
  ASSUME Typed, NEW o \in Operators,
         RequestAll(o) \/ \E id \in Ids : Request(o, id) \/ ApproveNext(o, id) \/ Reject(o, id)
  PROVE  Typed' /\ RowsKept
<1> USE DEF Typed
<1>0. o \in Executors /\ o # Director
  BY DecisionConstants DEF Executors
<1>a. \A id \in Reachable : id \in Ids /\ id \in 1 .. last
  BY DecisionConstants DEF Reachable, TypeOK, Ids
<1>b. /\ run' = run => RunsKept
      /\ row' = row => RowsKept
      /\ queue' = queue /\ edit' = edit => QueuesKept
  BY RowFacts DEF TypeOK, RunsKept, QueuesKept
<1>1. ASSUME NEW q \in SUBSET (1 .. last), NEW e \in Payloads \cup {None},
             queue' = [queue EXCEPT ![o] = q], edit' = [edit EXCEPT ![o] = e],
             \A id \in q : e # None => TypeOf[e] = TypeOf[row[id].draft],
             under' = [under EXCEPT ![o] = IF o \in Admins THEN config ELSE None],
             UNCHANGED <<row, last, config, phase, run, landed, did, consent>>
      PROVE  Typed' /\ RowsKept
  <2>1. TypeOK'
    BY <1>0, <1>1 DEF TypeOK
  <2>2. RunFits'
    BY <1>1 DEF RunFits
  <2>3. EditFits'
    BY <1>0, <1>1 DEF EditFits, TypeOK
  <2>4. UnderFits'
    BY <1>0, <1>1 DEF UnderFits, TypeOK, Executors, Operators
  <2> QED BY <1>1, <1>b, <2>1, <2>2, <2>3, <2>4
<1>2. CASE RequestAll(o)
  <2>1. Reachable \in SUBSET (1 .. last)
    BY <1>a
  <2> QED BY <1>1, <1>2, <2>1 DEF RequestAll
<1>3. ASSUME NEW id \in Ids, Request(o, id) PROVE Typed' /\ RowsKept
  <2>1. id \in 1 .. last /\ row[id].payload \in Payloads /\ TypeOf[row[id].payload] = TypeOf[row[id].draft]
    BY <1>3, <1>a DEF Request, TypeOK
  <2>2. PICK e \in {None} \cup (IF o \in Admins THEN EditsOf[row[id].payload] ELSE {}) :
          edit' = [edit EXCEPT ![o] = e]
    BY <1>3 DEF Request
  <2>3. e \in Payloads \cup {None} /\ (e # None => TypeOf[e] = TypeOf[row[id].draft])
    BY <2>1, <2>2, DecisionConstants
  <2>4. queue' = [queue EXCEPT ![o] = {id}] /\ {id} \in SUBSET (1 .. last)
    BY <1>3, <2>1 DEF Request
  <2>5. /\ under' = [under EXCEPT ![o] = IF o \in Admins THEN config ELSE None]
        /\ UNCHANGED <<row, last, config, phase, run, landed, did, consent>>
    BY <1>3 DEF Request
  <2> QED BY <1>1, <2>2, <2>3, <2>4, <2>5
<1>4. ASSUME NEW id \in Ids, ApproveNext(o, id) PROVE Typed' /\ RowsKept
  <2> DEFINE p == IF edit[o] # None THEN edit[o] ELSE row[id].payload
  <2>1. id \in queue[o] /\ id \in 1 .. last
    BY <1>0, <1>4, QueuedIds DEF ApproveNext, Head
  <2>2. p \in Payloads /\ TypeOf[p] = TypeOf[row[id].draft]
    BY <1>0, <2>1 DEF TypeOK, EditFits
  <2>3. QueuesKept
    BY <1>0, <1>4 DEF ApproveNext, TypeOK, QueuesKept
  <2>4. \/ row' = row /\ run' = run
        \/ row' = [row EXCEPT ![id].payload = p, ![id].outcome = "skipped"] /\ run' = run
        \/ Carry(o, id, p)
    BY <1>4 DEF ApproveNext
  <2> HIDE DEF p
  <2>5. RowsKept /\ RunsKept
    <3>1. CASE row' = row /\ run' = run
      BY <1>b, <3>1
    <3>2. CASE row' = [row EXCEPT ![id].payload = p, ![id].outcome = "skipped"] /\ run' = run
      <4>1. "skipped" \in Outcomes
        BY DEF Outcomes
      <4> QED BY <1>b, <2>1, <2>2, <3>2, <4>1, RowFacts
    <3>3. CASE Carry(o, id, p)
      BY <1>0, <2>1, <2>2, <3>3, CarryTyped
    <3> QED BY <2>4, <3>1, <3>2, <3>3
  <2>6. /\ consent' \subseteq 1 .. last
        /\ last' = last /\ config' \in Configs
        /\ phase' \in Phases /\ landed' = landed /\ did' = did
    BY <1>4, <2>1 DEF ApproveNext, TypeOK
  <2>7. UnderKept
    <3>1. /\ queue' = [queue EXCEPT ![o] = queue[o] \ {id}] /\ phase' = phase
          /\ under' = [under EXCEPT ![o] = IF queue[o] = {id} THEN None ELSE under[o]]
      BY <1>4 DEF ApproveNext
    <3>2. queue'[o] # {} => queue[o] # {id}
      BY <1>0, <3>1 DEF TypeOK
    <3> QED BY <1>0, <3>1, <3>2 DEF UnderFits, UnderKept, TypeOK, Executors, Operators
  <2> QED BY <2>3, <2>5, <2>6, <2>7, KeptTyped DEF TypeOK
<1>5. ASSUME NEW id \in Ids, Reject(o, id) PROVE Typed' /\ RowsKept
  <2>1. id \in 1 .. last /\ "rejected" \in Outcomes
    BY <1>5, <1>a DEF Reject, Outcomes
  <2>2. RowsKept
    BY <1>5, <2>1, RowFacts DEF Reject
  <2>3. RunsKept /\ QueuesKept
    BY <1>5, <1>b DEF Reject
  <2>4. UnderKept
    BY <1>5, <2>3, UnderSame DEF Reject
  <2> QED BY <1>5, <2>2, <2>3, <2>4, KeptTyped DEF Reject, TypeOK
<1> QED BY <1>2, <1>3, <1>4, <1>5

LEMMA EnvironmentTyped ==
  ASSUME Typed, Reconfigure \/ MainDies \/ DirectorDies \/ \E id \in Ids : Age(id)
  PROVE  Typed' /\ RowsKept
<1> USE DEF Typed
<1>0. /\ run' = run => RunsKept
      /\ row' = row => RowsKept
      /\ queue' = queue /\ edit' = edit => QueuesKept
  BY RowFacts DEF TypeOK, RunsKept, QueuesKept
<1>1. CASE Reconfigure
  <2>1. RowsKept /\ RunsKept /\ QueuesKept
    BY <1>0, <1>1 DEF Reconfigure
  <2>2. UnderKept
    BY <1>1, <2>1, UnderSame DEF Reconfigure
  <2> QED BY <1>1, <2>1, <2>2, KeptTyped DEF Reconfigure, TypeOK
<1>2. ASSUME NEW lost, Forget(lost), phase' = "idle" \/ (phase' = phase /\ Director \notin lost) PROVE Typed' /\ RowsKept
  <2>1. RowsKept
    BY <1>0, <1>2 DEF Forget
  <2>2. RunsKept
    BY <1>2 DEF Forget, TypeOK, RunsKept
  <2>3. QueuesKept
    BY <1>2 DEF Forget, TypeOK, QueuesKept
  <2>4. UnderKept
    BY <1>2 DEF Forget, TypeOK, UnderFits, UnderKept, Executors, Operators
  <2>5. phase' \in Phases
    BY <1>2 DEF TypeOK, Phases
  <2> QED BY <1>2, <2>1, <2>2, <2>3, <2>4, <2>5, KeptTyped DEF Forget, TypeOK
<1>3. CASE MainDies \/ DirectorDies
  <2>1. CASE MainDies
    <3>1. Forget(Admins) /\ phase' = phase
      BY <2>1 DEF MainDies
    <3>2. Director \notin Admins
      BY DecisionConstants DEF Operators
    <3> QED BY <1>2, <3>1, <3>2
  <2>2. CASE DirectorDies
    <3> DEFINE dead == {Director} \cup Bridges
    <3>1. Forget(dead) /\ phase' = "idle"
      BY <2>2 DEF DirectorDies
    <3> HIDE DEF dead, Typed
    <3> QED BY <1>2, <3>1
  <2> QED BY <1>3, <2>1, <2>2
<1>4. ASSUME NEW id \in Ids, Age(id) PROVE Typed' /\ RowsKept
  <2>1. id \in 1 .. last
    BY <1>4, DecisionConstants DEF Age, TypeOK, Ids
  <2>2. RowsKept
    BY <1>4, <2>1, RowFacts DEF Age
  <2>3. RunsKept /\ QueuesKept
    BY <1>0, <1>4 DEF Age
  <2>4. UnderKept
    BY <1>4, <2>3, UnderSame DEF Age
  <2> QED BY <1>4, <2>2, <2>3, <2>4, KeptTyped DEF Age, TypeOK
<1> QED BY <1>1, <1>3, <1>4

LEMMA StutterTyped == Typed /\ UNCHANGED vars => Typed' /\ RowsKept
<1> SUFFICES ASSUME Typed, UNCHANGED vars PROVE Typed' /\ RowsKept
  OBVIOUS
<1>1. Typed'
  BY DEF vars, Typed, TypeOK, RunFits, EditFits, UnderFits
<1>2. row' = row
  BY DEF vars
<1> QED BY <1>1, <1>2, RowFacts

LEMMA TypedStep == Typed /\ [Next]_vars => Typed' /\ (RowsKept \/ RecordNext)
BY TickTyped, RunStepTyped, OperatorTyped, EnvironmentTyped, StutterTyped DEF Next

\* TypeOK: the types, that what is recorded is what was numbered, and that a decision keeps its type.
THEOREM TypeCorrect == Spec => []TypeOK
<1>1. Typed => TypeOK
  BY DEF Typed
<1> QED BY <1>1, InitTyped, TypedStep, PTL DEF Spec

-----------------------------------------------------------------------------
(* How an execution comes about, and how a row becomes executed. *)

\* The first step of an execution that has calls to make.
Started(w, id, p) ==
  /\ Calls(TypeOf[p]) > 0
  /\ run' = [run EXCEPT ![w] = [id |-> id, payload |-> p, call |-> 1, attempt |-> 0, sent |-> FALSE]]

\* The payload of an approval.
Asked(o, id) == IF edit[o] # None THEN edit[o] ELSE row[id].payload

LEMMA RunOrigin ==
  ASSUME Typed, [Next]_vars, NEW w \in Executors, run'[w] # None, run'[w] # run[w]
  PROVE  \/ RunStep(w)
         \/ \E id \in Ids : w = Director /\ ExecuteNext(id) /\ Started(w, id, row[id].draft)
         \/ \E id \in Ids : w \in Operators /\ ApproveNext(w, id) /\ Started(w, id, Asked(w, id))
<1>1. run' # run
  OBVIOUS
<1>0. run \in [Executors -> Run \cup {None}]
  BY DEF Typed, TypeOK
<1>2. ASSUME NEW lost, Forget(lost) PROVE FALSE
  BY <1>2 DEF Forget
<1>3. ASSUME NEW v \in Executors, RunStep(v) PROVE v = w
  <2>1. run'[w] = run[w] \/ v = w
    BY <1>0, <1>3 DEF RunStep, Lands, Answered, Retry, GiveUp
  <2> QED BY <2>1
<1>4. ASSUME NEW id \in Ids, ExecuteNext(id) PROVE w = Director /\ Started(w, id, row[id].draft)
  <2>1. Carry(Director, id, row[id].draft)
    BY <1>1, <1>4 DEF ExecuteNext
  <2>2. Started(Director, id, row[id].draft)
    BY <1>1, <2>1 DEF Carry, Started
  <2>3. w = Director
    BY <1>0, <2>2 DEF Started
  <2> QED BY <2>2, <2>3
<1>5. ASSUME NEW o \in Operators, NEW id \in Ids, ApproveNext(o, id) PROVE w = o /\ Started(w, id, Asked(w, id))
  <2>1. Carry(o, id, Asked(o, id))
    BY <1>1, <1>5 DEF ApproveNext, Asked
  <2>2. Started(o, id, Asked(o, id))
    BY <1>1, <2>1 DEF Carry, Started
  <2>3. w = o
    BY <1>0, <2>2 DEF Started
  <2> QED BY <2>2, <2>3
<1>6. \/ \E v \in Executors : RunStep(v)
      \/ \E id \in Ids : ExecuteNext(id)
      \/ \E o \in Operators : \E id \in Ids : ApproveNext(o, id)
      \/ \E lost : Forget(lost)
  BY <1>1 DEF Next, vars, BeginRound, BeginTick, NoDecision, RecordNext, MarkTwin, BeginActing, EndTick,
     Age, RequestAll, Request, Reject,
              Reconfigure, MainDies, DirectorDies
<1> QED BY <1>2, <1>3, <1>4, <1>5, <1>6

\* What the forge has done stays done, and only a step of an execution adds to it.
LEMMA LandedGrows ==
  ASSUME Typed, [Next]_vars
  PROVE  /\ \A i \in Ids, k \in 1 .. 2 : landed[i][k] > 0 => landed'[i][k] > 0
         /\ landed' = landed
            \/ \E w \in Executors : /\ Lands(w) /\ run[w].id <= last
                                    /\ \A i \in Ids \ {run[w].id} : landed'[i] = landed[i]
<1>0. landed \in [Ids -> [1 .. 2 -> 0 .. 2]]
  BY DEF Typed, TypeOK
<1>1. landed' = landed \/ \E w \in Executors : Lands(w)
  BY ZenonT(30) DEF Next, vars, BeginRound, BeginTick, NoDecision, RecordNext, MarkTwin, BeginActing,
     EndTick, ExecuteNext, Age, RunStep, Answered, Retry,
         GiveUp, RequestAll, Request, ApproveNext, Reject, Reconfigure, MainDies, DirectorDies, Forget
<1>2. ASSUME NEW w \in Executors, Lands(w)
      PROVE  /\ \A i \in Ids, k \in 1 .. 2 : landed[i][k] > 0 => landed'[i][k] > 0
             /\ run[w].id <= last
             /\ \A i \in Ids \ {run[w].id} : landed'[i] = landed[i]
  <2> DEFINE i == run[w].id
             k == run[w].call
             n == IF landed[i][k] < 2 THEN landed[i][k] + 1 ELSE landed[i][k]
  <2>1. i \in Ids /\ k \in 1 .. 2 /\ i <= last
    BY <1>2 DEF Lands, Typed, TypeOK, RunFits, Run
  <2>2. n > 0
    BY <1>0, <2>1
  <2>3. landed' = [landed EXCEPT ![i] = [landed[i] EXCEPT ![k] = n]]
    BY <1>2 DEF Lands
  <2> HIDE DEF i, k, n
  <2>4. \A j \in Ids, m \in 1 .. 2 : landed'[j][m] = IF j = i /\ m = k THEN n ELSE landed[j][m]
    BY <1>0, <2>1, <2>3
  <2>5. \A j \in Ids \ {i} : landed'[j] = landed[j]
    BY <1>0, <2>1, <2>3
  <2> QED BY <2>1, <2>2, <2>4, <2>5 DEF i, k
<1> QED BY <1>1, <1>2

LEMMA LandsLanded ==
  ASSUME Typed, NEW w \in Executors, Lands(w)
  PROVE  landed'[run[w].id][run[w].call] > 0
<1> DEFINE i == run[w].id
           k == run[w].call
           n == IF landed[i][k] < 2 THEN landed[i][k] + 1 ELSE landed[i][k]
<1>0. landed \in [Ids -> [1 .. 2 -> 0 .. 2]]
  BY DEF Typed, TypeOK
<1>1. i \in Ids /\ k \in 1 .. 2
  BY DEF Lands, Typed, TypeOK, Run
<1>2. n > 0
  BY <1>0, <1>1
<1>3. landed' = [landed EXCEPT ![i] = [landed[i] EXCEPT ![k] = n]]
  BY DEF Lands
<1> HIDE DEF i, k, n
<1>4. landed'[i][k] = n
  BY <1>0, <1>1, <1>3
<1> QED BY <1>2, <1>4 DEF i, k

LEMMA LandedSoFarStep == Typed /\ LandedSoFar /\ [Next]_vars => LandedSoFar'
<1> SUFFICES ASSUME Typed, LandedSoFar, [Next]_vars, NEW w \in Executors, run'[w] # None, NEW k \in 1 .. 2,
                    k < run'[w].call \/ (k = run'[w].call /\ run'[w].sent)
             PROVE  landed'[run'[w].id][k] > 0
  BY DEF LandedSoFar
<1>0. run \in [Executors -> Run \cup {None}]
  BY DEF Typed, TypeOK
<1>1. CASE run'[w] = run[w]
  <2>1. run[w].id \in Ids /\ landed[run[w].id][k] > 0
    BY <1>0, <1>1 DEF LandedSoFar, Run
  <2> QED BY <1>1, <2>1, LandedGrows
<1>2. ASSUME NEW id, NEW p, Started(w, id, p) PROVE FALSE
  <2>1. run'[w] = [id |-> id, payload |-> p, call |-> 1, attempt |-> 0, sent |-> FALSE]
    BY <1>0, <1>2 DEF Started
  <2>2. run'[w].call = 1 /\ run'[w].sent = FALSE
    BY <2>1
  <2> QED BY <2>2
<1>3. CASE run'[w] # run[w] /\ RunStep(w)
  <2>0. run[w] \in Run /\ run[w] # None
    BY <1>0, <1>3 DEF RunStep, Lands, Answered, Retry, GiveUp, Errs
  <2>1. CASE Lands(w)
    <3>1. run' = [run EXCEPT ![w] = [run[w] EXCEPT !.sent = TRUE]]
      BY <2>1 DEF Lands
    <3>2. run'[w] = [run[w] EXCEPT !.sent = TRUE]
      BY <1>0, <3>1
    <3>3. run'[w].id = run[w].id /\ run'[w].call = run[w].call
      BY <2>0, <3>2 DEF Run
    <3>4. CASE k = run[w].call
      BY <2>1, <3>3, <3>4, LandsLanded
    <3>5. CASE k # run[w].call
      BY <2>0, <3>3, <3>5, LandedGrows DEF LandedSoFar, Run
    <3> QED BY <3>4, <3>5
  <2>2. CASE Answered(w)
    <3>1. run' = [run EXCEPT ![w] = [run[w] EXCEPT !.call = run[w].call + 1, !.sent = FALSE]]
      BY <1>0, <2>2 DEF Answered
    <3>2. run'[w] = [run[w] EXCEPT !.call = run[w].call + 1, !.sent = FALSE]
      BY <1>0, <3>1
    <3>3. run'[w].id = run[w].id /\ run'[w].call = run[w].call + 1 /\ ~run'[w].sent
      BY <2>0, <3>2 DEF Run
    <3>4. k < run[w].call \/ (k = run[w].call /\ run[w].sent)
      BY <2>0, <2>2, <3>3 DEF Answered, Run
    <3> QED BY <2>0, <3>3, <3>4, LandedGrows DEF LandedSoFar, Run
  <2>3. CASE Retry(w)
    <3> DEFINE x == [run[w] EXCEPT !.call = 1, !.attempt = @ + 1]
    <3>1. x.call = 1
      BY <2>0 DEF Run
    <3>2. run'[w] = [x EXCEPT !.sent = FALSE]
      BY <1>0, <2>3 DEF Retry
    <3>3. run'[w].call = 1 /\ run'[w].sent = FALSE
      BY <2>0, <3>1, <3>2 DEF Run
    <3> QED BY <3>3
  <2>4. CASE GiveUp(w)
    BY <1>0, <2>4 DEF GiveUp
  <2> QED BY <1>3, <2>1, <2>2, <2>3, <2>4 DEF RunStep
<1> QED BY <1>1, <1>2, <1>3, RunOrigin

LEMMA InitLanded == Init => LandedSoFar /\ ExecutedLanded /\ AllowedRuns /\ Mandate
<1> SUFFICES ASSUME Init PROVE LandedSoFar /\ ExecutedLanded /\ AllowedRuns /\ Mandate
  OBVIOUS
<1>1. \A id \in Ids : ~Acted(id)
  BY DEF Init, Acted
<1>2. 1 .. last = {}
  BY DEF Init
<1> QED BY <1>1, <1>2 DEF Init, LandedSoFar, ExecutedLanded, AllowedRuns, Mandate

\* A row becomes executed when there is nothing to call, or by the answer to the last call.
LEMMA BecomesExecuted ==
  ASSUME Typed, [Next]_vars, ~RecordNext, NEW id \in 1 .. last,
         row'[id].outcome = "executed", row[id].outcome # "executed"
  PROVE  \/ Calls(TypeOf[row[id].draft]) = 0
         \/ \E w \in Executors : /\ run[w] # None /\ run[w].id = id /\ run[w].sent
                                 /\ Calls(TypeOf[row[id].draft]) <= run[w].call
<1>0. /\ row \in [Ids -> Row] /\ id \in Ids /\ row' # row
      /\ row[id].payload \in Payloads /\ row[id].draft \in Payloads
      /\ TypeOf[row[id].payload] = TypeOf[row[id].draft] /\ TypeOf[row[id].draft] \in Types
  BY DecisionConstants DEF Typed, TypeOK, Ids
<1>1. ASSUME NEW i \in Ids, NEW o, row' = [row EXCEPT ![i].outcome = o] PROVE i = id /\ o = "executed"
  <2>1. row' = [row EXCEPT ![i] = [row[i] EXCEPT !.outcome = o]]
    BY <1>0, <1>1
  <2>2. i = id
    BY <1>0, <2>1
  <2>3. row'[id] = [row[id] EXCEPT !.outcome = o]
    BY <1>0, <2>1, <2>2
  <2> QED BY <1>0, <2>2, <2>3 DEF Row
<1>2. ASSUME NEW i \in Ids, NEW r, r.outcome # "executed" \/ r.outcome = row[i].outcome, row' = [row EXCEPT ![i] = r]
      PROVE  FALSE
  BY <1>0, <1>2
<1>3. ASSUME NEW v \in Executors, NEW i \in Ids, NEW p, Carry(v, i, p), TypeOf[p] = TypeOf[row[i].draft]
      PROVE  Calls(TypeOf[row[id].draft]) = 0
  <2> DEFINE s == Stored(v, i, p)
             o == IF TypeOf[p] = "amend_charter" THEN "failed" ELSE "executed"
  <2>0. row[i] \in Row
    BY <1>0
  <2>1. CASE Calls(TypeOf[p]) > 0
    <3> DEFINE x == [row[i] EXCEPT !.payload = s]
    <3>1. row' = [row EXCEPT ![i] = x]
      BY <1>0, <1>3, <2>1 DEF Carry
    <3>2. x.outcome = row[i].outcome
      BY <2>0 DEF Row
    <3> HIDE DEF x
    <3> QED BY <1>2, <3>1, <3>2
  <2>2. CASE ~(Calls(TypeOf[p]) > 0)
    <3> DEFINE x == [row[i] EXCEPT !.payload = s, !.outcome = o]
    <3>1. row' = [row EXCEPT ![i] = x]
      BY <1>0, <1>3, <2>2 DEF Carry
    <3> HIDE DEF x
    <3>2. i = id
      BY <1>0, <3>1
    <3> QED BY <1>0, <1>3, <2>2, <3>2, CallsBound
  <2> QED BY <2>1, <2>2
<1>4. CASE BeginRound
  <2>1. row'[id] = row[id] \/ row'[id] = [row[id] EXCEPT !.outcome = "expired"]
    BY <1>0, <1>4 DEF BeginRound
  <2>2. row[id] \in Row
    BY <1>0
  <2> QED BY <2>1, <2>2 DEF Row
<1>5. ASSUME NEW i \in Ids, ExecuteNext(i) PROVE Calls(TypeOf[row[id].draft]) = 0
  <2>1. row[i] \in Row
    BY <1>0
  <2>2. ASSUME row' = [row EXCEPT ![i].outcome = "pending", ![i].posted = TRUE] PROVE FALSE
    <3> DEFINE x == [row[i] EXCEPT !.outcome = "pending", !.posted = TRUE]
    <3>1. row' = [row EXCEPT ![i] = x]
      BY <1>0, <2>2
    <3>2. x.outcome = "pending"
      BY <2>1 DEF Row
    <3> HIDE DEF x
    <3> QED BY <1>2, <3>1, <3>2
  <2>3. Carry(Director, i, row[i].draft)
    BY <1>1, <1>5, <2>2 DEF ExecuteNext, Settle
  <2>4. Director \in Executors
    BY DEF Executors
  <2> QED BY <1>3, <2>3, <2>4
<1>6. ASSUME NEW v \in Executors, RunStep(v)
      PROVE  /\ run[v] # None /\ run[v].id = id /\ run[v].sent
             /\ Calls(TypeOf[row[id].draft]) <= run[v].call
  <2>0. run[v] \in Run /\ run[v] # None /\ run[v].id \in Ids
    BY <1>6 DEF RunStep, Lands, Answered, Retry, GiveUp, Errs, Typed, TypeOK, Run
  <2>1. Answered(v) /\ Settle(run[v].id, "executed")
    <3>1. ~Lands(v) /\ ~Retry(v)
      BY <1>0 DEF Lands, Retry
    <3>2. ~GiveUp(v)
      BY <1>1, <2>0 DEF GiveUp, Settle
    <3>3. Answered(v)
      BY <1>6, <3>1, <3>2 DEF RunStep
    <3> QED BY <1>0, <3>3 DEF Answered
  <2>2. run[v].id = id
    BY <1>1, <2>0, <2>1 DEF Settle
  <2>3. TypeOf[run[v].payload] = TypeOf[row[id].draft]
    BY <2>0, <2>2 DEF Typed, RunFits
  <2>4. ~(run[v].call < Calls(TypeOf[run[v].payload]))
    BY <1>0, <2>1 DEF Answered
  <2> QED BY <1>0, <2>0, <2>1, <2>2, <2>3, <2>4, CallsBound DEF Answered, Run
<1>7. ASSUME NEW o \in Operators, NEW i \in Ids, ApproveNext(o, i) PROVE Calls(TypeOf[row[id].draft]) = 0
  <2> DEFINE p == Asked(o, i)
  <2>0. o \in Executors /\ i \in queue[o] /\ i \in 1 .. last
    BY <1>7, QueuedIds DEF ApproveNext, Head, Executors, Typed
  <2>1. TypeOf[p] = TypeOf[row[i].draft]
    BY <2>0 DEF Asked, Typed, TypeOK, EditFits
  <2>2. ASSUME row' = [row EXCEPT ![i].payload = p, ![i].outcome = "skipped"] PROVE FALSE
    <3> DEFINE x == [row[i] EXCEPT !.payload = p, !.outcome = "skipped"]
    <3>1. row' = [row EXCEPT ![i] = x]
      BY <1>0, <2>2
    <3>2. x.outcome = "skipped"
      BY <1>0 DEF Row
    <3> HIDE DEF x
    <3> QED BY <1>2, <3>1, <3>2
  <2>3. Carry(o, i, p)
    BY <1>0, <1>7, <2>2 DEF ApproveNext, Asked
  <2> HIDE DEF p
  <2> QED BY <1>3, <2>0, <2>1, <2>3
<1>8. ASSUME NEW o \in Operators, NEW i \in Ids, Reject(o, i) PROVE FALSE
  BY <1>1, <1>8 DEF Reject, Settle
<1>9. ASSUME NEW i \in Ids, Age(i) PROVE FALSE
  <2> DEFINE x == [row[i] EXCEPT !.old = TRUE]
  <2>1. row' = [row EXCEPT ![i] = x]
    BY <1>0, <1>9 DEF Age
  <2>2. x.outcome = row[i].outcome
    BY <1>0 DEF Row
  <2> HIDE DEF x
  <2> QED BY <1>2, <2>1, <2>2
<1>11. ~MarkTwin
  <2>1. last \in Ids
    BY DecisionConstants DEF Typed, TypeOK, Ids
  <2> QED BY <1>1, <2>1 DEF MarkTwin, Settle
<1>10. \/ BeginRound \/ MarkTwin
       \/ \E i \in Ids : ExecuteNext(i) \/ Age(i)
       \/ \E v \in Executors : RunStep(v)
       \/ \E o \in Operators, i \in Ids : ApproveNext(o, i) \/ Reject(o, i)
  BY <1>0 DEF Next, vars, BeginTick, NoDecision, BeginActing, EndTick, RequestAll, Request, Reconfigure,
     MainDies, DirectorDies, Forget
<1> QED BY <1>4, <1>5, <1>6, <1>7, <1>8, <1>9, <1>10, <1>11

\* The ids of decisions only grow, and a recorded draft stays.
LEMMA DraftsKept ==
  ASSUME Typed, [Next]_vars
  PROVE  /\ last' >= last
         /\ \A id \in 1 .. last : id \in Ids /\ row'[id].draft = row[id].draft
         /\ \A id \in (1 .. last') \ (1 .. last) : id \in Ids /\ RecordNext /\ row'[id].outcome = "pending"
<1>0. last \in 0 .. MaxRows /\ MaxRows \in Nat /\ Ids = 1 .. MaxRows
  BY DecisionConstants DEF Typed, TypeOK, Ids
<1>1. CASE RecordNext
  BY <1>0, <1>1, OneMore, NewRowFields DEF Typed
<1>2. CASE ~RecordNext
  <2>1. RowsKept
    BY <1>2, TypedStep
  <2>2. last' = last
    BY <1>2, ZenonT(30) DEF Next, vars, BeginRound, BeginTick, NoDecision, MarkTwin, BeginActing, EndTick,
       ExecuteNext, Age, RunStep, Lands, Answered, Retry,
                GiveUp, RequestAll, Request, ApproveNext, Reject, Reconfigure, MainDies, DirectorDies, Forget
  <2> QED BY <1>0, <2>1, <2>2 DEF RowsKept
<1> QED BY <1>1, <1>2

LEMMA ExecutedLandedStep == Typed /\ LandedSoFar /\ ExecutedLanded /\ [Next]_vars => ExecutedLanded'
<1> SUFFICES ASSUME Typed, LandedSoFar, ExecutedLanded, [Next]_vars, NEW id \in 1 .. last',
                    row'[id].outcome = "executed", NEW k \in 1 .. Calls(TypeOf[row'[id].draft])
             PROVE  landed'[id][k] > 0
  BY DEF ExecutedLanded
<1>1. id \in 1 .. last /\ id \in Ids
  BY DraftsKept
<1>2. row'[id].draft = row[id].draft
  BY <1>1, DraftsKept
<1>3. Calls(TypeOf[row[id].draft]) \in 0 .. 2
  BY <1>1, CallsBound, DecisionConstants DEF Typed, TypeOK
<1>4. k \in 1 .. 2
  BY <1>2, <1>3
<1>5. landed[id][k] > 0
  <2>1. CASE row[id].outcome = "executed"
    BY <1>1, <1>2, <2>1 DEF ExecutedLanded
  <2>2. CASE row[id].outcome # "executed"
    <3>1. ~RecordNext
      BY <1>1, <2>2, OneMore DEF Typed
    <3>2. CASE Calls(TypeOf[row[id].draft]) = 0
      BY <1>2, <3>2
    <3>3. CASE \E w \in Executors : /\ run[w] # None /\ run[w].id = id /\ run[w].sent
                                    /\ Calls(TypeOf[row[id].draft]) <= run[w].call
      <4>1. PICK w \in Executors : /\ run[w] # None /\ run[w].id = id /\ run[w].sent
                                   /\ Calls(TypeOf[row[id].draft]) <= run[w].call
        BY <3>3
      <4>2. run[w].call \in 1 .. 2
        BY <4>1 DEF Typed, TypeOK, Run
      <4>3. k < run[w].call \/ (k = run[w].call /\ run[w].sent)
        BY <1>2, <1>3, <4>1, <4>2
      <4> QED BY <1>4, <4>1, <4>3 DEF LandedSoFar
    <3> QED BY <1>1, <2>2, <3>1, <3>2, <3>3, BecomesExecuted
  <2> QED BY <2>1, <2>2
<1> QED BY <1>1, <1>4, <1>5, LandedGrows

\* ExecutedLanded: an executed decision has been carried out, to its last call.
THEOREM ExecutedIsDone == Spec => []ExecutedLanded
<1>1. Init => Typed /\ LandedSoFar /\ ExecutedLanded
  BY InitTyped, InitLanded
<1>2. (Typed /\ LandedSoFar /\ ExecutedLanded) /\ [Next]_vars => (Typed /\ LandedSoFar /\ ExecutedLanded)'
  BY TypedStep, LandedSoFarStep, ExecutedLandedStep
<1> QED BY <1>1, <1>2, PTL DEF Spec

\* A mandate once given is not taken back from a decision.
LEMMA AllowedStays ==
  ASSUME Typed, [Next]_vars, NEW id \in 1 .. last, Allowed(id)
  PROVE  Allowed(id)'
<1>1. consent \subseteq consent'
  BY ZenonT(30) DEF Next, vars, BeginRound, BeginTick, NoDecision, RecordNext, MarkTwin, BeginActing,
     EndTick, ExecuteNext, Age, RunStep, Lands, Answered,
         Retry, GiveUp, RequestAll, Request, ApproveNext, Reject, Reconfigure, MainDies, DirectorDies, Forget
<1>2. row'[id].draft = row[id].draft
  BY DraftsKept
<1> QED BY <1>1, <1>2 DEF Allowed

\* What passes the gates of the tick, or of an approval, has its mandate.
LEMMA GatesAllow ==
  ASSUME Typed, NEW id \in 1 .. last, NEW w \in Executors, run' # run,
         \/ w = Director /\ ExecuteNext(id) /\ Started(w, id, row[id].draft)
         \/ w \in Operators /\ ApproveNext(w, id) /\ Started(w, id, Asked(w, id))
  PROVE  Allowed(id)'
<1>0. id \in Ids /\ row[id].draft \in Payloads /\ TypeOf[row[id].payload] = TypeOf[row[id].draft]
  BY DecisionConstants DEF Typed, TypeOK, Ids
<1>1. row'[id].draft = row[id].draft
  <2>1. Next
    BY <1>0 DEF Next
  <2> QED BY <2>1, DraftsKept
<1>2. CASE w = Director /\ ExecuteNext(id) /\ Started(w, id, row[id].draft)
  <2> DEFINE c == under[Director]
  <2>1. /\ c.mode # "dry_run" /\ ~Gated(row[id].draft, c)
        /\ ~NeedsApproval(row[id].draft, c.mode)
    BY <1>0, <1>2 DEF ExecuteNext
  <2>2. TypeOf[row[id].draft] \in DOMAIN FlagOf /\ TypeOf[row[id].draft] \notin Internal
    BY <1>0, <1>2, DecisionConstants DEF Started, Calls, Types
  <2>3. c \in Configs /\ c.mode \in Modes
    BY <1>2, DecisionConstants DEF ExecuteNext, Typed, UnderFits
  <2>4. \/ c.mode = "full_auto"
        \/ c.mode = "semi_auto" /\ TypeOf[row[id].draft] # "merge_pr"
    BY <2>1, <2>2, <2>3 DEF NeedsApproval, Modes
  <2> QED BY <1>1, <2>1, <2>2, <2>3, <2>4 DEF Allowed, Gated
<1>3. CASE w \in Operators /\ ApproveNext(w, id) /\ Started(w, id, Asked(w, id))
  <2> DEFINE c == IF w \in Admins THEN under[w] ELSE config
  <2>1. id \in consent' /\ ~Gated(Asked(w, id), c)
    BY <1>0, <1>3 DEF ApproveNext, Asked
  <2>2. TypeOf[Asked(w, id)] = TypeOf[row[id].draft]
    <3>1. id \in queue[w]
      BY <1>3 DEF ApproveNext, Head
    <3> QED BY <1>0, <3>1 DEF Asked, Typed, EditFits
  <2>3. TypeOf[row[id].draft] \in DOMAIN FlagOf
    BY <1>0, <1>3, <2>2, DecisionConstants DEF Started, Calls, Types
  <2>4. c \in Configs
    BY <1>3 DEF ApproveNext, Head, Typed, TypeOK, UnderFits
  <2> QED BY <1>1, <2>1, <2>2, <2>3, <2>4 DEF Allowed, Gated
<1> QED BY <1>2, <1>3

LEMMA AllowedRunsStep == Typed /\ AllowedRuns /\ [Next]_vars => AllowedRuns'
<1> SUFFICES ASSUME Typed, AllowedRuns, [Next]_vars PROVE AllowedRuns'
  OBVIOUS
<1>1. ASSUME NEW w \in Executors, run'[w] # None, NEW i, i = run'[w].id PROVE Allowed(i)'
  <2>1. ASSUME run[w] # None, i = run[w].id PROVE Allowed(i)'
    <3>1. run[w].id \in 1 .. last /\ Allowed(run[w].id)
      BY <2>1 DEF AllowedRuns, Typed, TypeOK, RunFits, Run, Ids
    <3>2. i \in 1 .. last /\ Allowed(i)
      BY <2>1, <3>1 DEF Allowed
    <3> QED BY <3>2, AllowedStays
  <2>2. CASE run'[w] = run[w]
    BY <1>1, <2>1, <2>2
  <2>3. CASE RunStep(w)
    <3>0. run[w] \in Run /\ run[w] # None
      BY <2>3 DEF RunStep, Lands, Answered, Retry, GiveUp, Errs, Typed, TypeOK
    <3>1. run'[w].id = run[w].id
      BY <1>1, <2>3, <3>0 DEF RunStep, Lands, Answered, Retry, GiveUp, Typed, TypeOK, Run
    <3> QED BY <1>1, <2>1, <3>0, <3>1
  <2>4. ASSUME run'[w] # run[w], NEW id \in Ids,
               \/ w = Director /\ ExecuteNext(id) /\ Started(w, id, row[id].draft)
               \/ w \in Operators /\ ApproveNext(w, id) /\ Started(w, id, Asked(w, id))
        PROVE  Allowed(i)'
    <3>1. id \in queue[w]
      BY <2>4 DEF ExecuteNext, ApproveNext, Head
    <3>2. id \in 1 .. last
      BY <3>1, QueuedIds DEF Typed
    <3>3. i = id
      <4>1. PICK p : run' = [run EXCEPT ![w] = [id |-> id, payload |-> p, call |-> 1, attempt |-> 0, sent |-> FALSE]]
        BY <2>4 DEF Started
      <4>2. run'[w] = [id |-> id, payload |-> p, call |-> 1, attempt |-> 0, sent |-> FALSE]
        BY <4>1 DEF Typed, TypeOK
      <4> QED BY <1>1, <4>2
    <3> QED BY <2>4, <3>2, <3>3, GatesAllow
  <2> QED BY <1>1, <2>2, <2>3, <2>4, RunOrigin
<1>2. ASSUME NEW id \in Ids, id > last' PROVE ~Acted(id)'
  <2>1. id > last
    BY <1>2, DraftsKept, DecisionConstants, TypedStep DEF Typed, TypeOK, Ids
  <2>2. landed'[id] = landed[id]
    <3>1. ASSUME NEW w \in Executors, run[w].id <= last PROVE run[w].id # id
      BY <2>1, <3>1, DecisionConstants DEF Typed, TypeOK, Ids
    <3> QED BY <3>1, LandedGrows
  <2>3. ~Acted(id)
    BY <2>1 DEF AllowedRuns
  <2> QED BY <2>2, <2>3 DEF Acted
<1> QED BY <1>1, <1>2 DEF AllowedRuns, Allowed

LEMMA MandateStep == Typed /\ AllowedRuns /\ Mandate /\ [Next]_vars => Mandate'
<1> SUFFICES ASSUME Typed, AllowedRuns, Mandate, [Next]_vars, NEW id \in 1 .. last', Acted(id)'
             PROVE  Allowed(id)'
  BY DEF Mandate, Allowed
<1>0. last \in Nat /\ last' \in Nat
  BY TypedStep, DecisionConstants DEF Typed, TypeOK
<1>1. ASSUME id \in 1 .. last, Acted(id) PROVE Allowed(id)'
  BY <1>1, AllowedStays DEF Mandate, Allowed
<1>2. ASSUME NEW w \in Executors, Lands(w), run[w].id = id PROVE Allowed(id)'
  <2>1. id \in 1 .. last /\ Allowed(id)
    BY <1>0, <1>2 DEF Lands, AllowedRuns, Typed, RunFits
  <2> QED BY <2>1, AllowedStays
<1>3. CASE landed'[id] = landed[id]
  <2>1. Acted(id)
    BY <1>3 DEF Acted
  <2>2. id \in Ids
    BY DraftsKept
  <2>3. id \in 1 .. last
    BY <1>0, <2>1, <2>2 DEF AllowedRuns
  <2> QED BY <1>1, <2>1, <2>3
<1>4. CASE landed'[id] # landed[id]
  <2>1. id \in Ids
    BY DraftsKept
  <2>2. PICK w \in Executors : /\ Lands(w) /\ run[w].id <= last
                               /\ \A i \in Ids \ {run[w].id} : landed'[i] = landed[i]
    BY <1>4, LandedGrows
  <2> QED BY <1>2, <1>4, <2>1, <2>2
<1> QED BY <1>3, <1>4

\* Mandate: whatever the director does, it was allowed to.
THEOREM MandateHolds == Spec => []Mandate
<1>1. Init => Typed /\ AllowedRuns /\ Mandate
  BY InitTyped, InitLanded
<1>2. (Typed /\ AllowedRuns /\ Mandate) /\ [Next]_vars => (Typed /\ AllowedRuns /\ Mandate)'
  BY TypedStep, AllowedRunsStep, MandateStep
<1> QED BY <1>1, <1>2, PTL DEF Spec

-----------------------------------------------------------------------------
(* With one careful operator *)

\* The circumstances.  Each of them can be broken in the deployed system, and then the properties proved
\* here fail: two requests at once, the list page, a lost answer, the death of the process that carries an
\* approval out, a second call retried.  The director may die: what its tick had begun was never posted.
Careful ==
  /\ \A o1, o2 \in Operators : o1 = o2
  /\ Sources = {"button"}
  /\ "lost" \notin Faults
  /\ "main" \notin Crashing
  /\ "director" \in Crashing => Bridges = {}
  /\ "transient" \notin Faults \/ \A p \in Payloads : Calls(TypeOf[p]) <= 1

\* Somebody is carrying a decision out.
AtWork(id) == \E w \in Executors : run[w] # None /\ run[w].id = id

\* What the tick has before it: decisions nobody else has touched.
TickAlone ==
  /\ \A id \in queue[Director] :
       row[id].outcome = "pending" /\ ~row[id].posted /\ row[id].payload = row[id].draft
  /\ run[Director] # None =>
       /\ row[run[Director].id].outcome = "pending"
       /\ ~row[run[Director].id].posted
       /\ row[run[Director].id].payload = run[Director].payload
       /\ run[Director].id \notin queue[Director]
  /\ queue[Director] # {} => phase \in {"recording", "marking", "acting"}
  /\ run[Director] # None => phase = "acting"

\* What the operator has: decisions that were posted; they may expire meanwhile.
OperatorAlone ==
  \A o \in Operators :
    /\ \A id \in queue[o] : row[id].posted
    /\ run[o] # None =>
         /\ row[run[o].id].posted
         /\ row[run[o].id].outcome \in {"pending", "expired"}
         /\ row[run[o].id].payload = run[o].payload

\* An execution has not yet done the call it is at, nor any after it.
FirstTime ==
  \A w \in Executors : run[w] # None =>
    \A k \in 1 .. 2 : k > run[w].call \/ (k = run[w].call /\ ~run[w].sent) => landed[run[w].id][k] = 0

\* What an execution did, it did with its payload.
DidIt ==
  \A w \in Executors : run[w] # None /\ (run[w].sent \/ run[w].call > 1) => run[w].payload \in did[run[w].id]

\* A pending decision that was posted or that the tick has still before it, and that nobody is at work on,
\* is untouched: whoever takes it up starts from nothing.  What a director that died had begun is neither.
PendingUntouched ==
  \A id \in 1 .. last :
    row[id].outcome = "pending" /\ ~AtWork(id) /\ (row[id].posted \/ id \in queue[Director]) => ~Acted(id)

ExpiredOld == \A id \in 1 .. last : row[id].outcome = "expired" => row[id].old

\* A duplicate that is to be marked is not known to anybody yet.
TwinAlone == phase = "marking" => last > 0 /\ Orphan(last)

\* The inductive invariant.
Alone == TickAlone /\ OperatorAlone /\ FirstTime /\ DidIt /\ PendingUntouched /\ ExpiredOld
Settled == Typed /\ AllowedRuns /\ Alone /\ TwinAlone

-----------------------------------------------------------------------------
(* What the statements do to a row, field by field. *)

\* Only the row of one decision changes, and of it neither draft nor age.
Becomes(id, outcome, payload, posted) ==
  /\ \A i \in Ids \ {id} : row'[i] = row[i]
  /\ row'[id].outcome = outcome
  /\ row'[id].payload = payload
  /\ row'[id].posted = posted
  /\ row'[id].old = row[id].old
  /\ row'[id].draft = row[id].draft

LEMMA BecomesFacts ==
  ASSUME Typed, NEW id \in Ids
  PROVE  /\ row' = row => Becomes(id, row[id].outcome, row[id].payload, row[id].posted)
         /\ \A o : Settle(id, o) => Becomes(id, o, row[id].payload, row[id].posted)
         /\ \A p : row' = [row EXCEPT ![id].payload = p] => Becomes(id, row[id].outcome, p, row[id].posted)
         /\ \A p, o : row' = [row EXCEPT ![id].payload = p, ![id].outcome = o] => Becomes(id, o, p, row[id].posted)
         /\ row' = [row EXCEPT ![id].outcome = "pending", ![id].posted = TRUE]
              => Becomes(id, "pending", row[id].payload, TRUE)
<1>0. row \in [Ids -> Row] /\ row[id] \in Row
  BY DEF Typed, TypeOK
<1>1. ASSUME NEW r, row' = [row EXCEPT ![id] = r], r.old = row[id].old, r.draft = row[id].draft
      PROVE  Becomes(id, r.outcome, r.payload, r.posted)
  BY <1>0, <1>1 DEF Becomes
<1>2. row' = row => Becomes(id, row[id].outcome, row[id].payload, row[id].posted)
  BY DEF Becomes
<1>3. ASSUME NEW o, Settle(id, o) PROVE Becomes(id, o, row[id].payload, row[id].posted)
  <2> DEFINE r == [row[id] EXCEPT !.outcome = o]
  <2>1. row' = [row EXCEPT ![id] = r]
    BY <1>0, <1>3 DEF Settle
  <2>2. /\ r.old = row[id].old /\ r.draft = row[id].draft
        /\ r.outcome = o /\ r.payload = row[id].payload /\ r.posted = row[id].posted
    BY <1>0 DEF Row
  <2> HIDE DEF r
  <2>3. Becomes(id, r.outcome, r.payload, r.posted)
    BY <1>1, <2>1, <2>2
  <2> QED BY <2>2, <2>3
<1>4. ASSUME NEW p, row' = [row EXCEPT ![id].payload = p] PROVE Becomes(id, row[id].outcome, p, row[id].posted)
  <2> DEFINE r == [row[id] EXCEPT !.payload = p]
  <2>1. row' = [row EXCEPT ![id] = r]
    BY <1>0, <1>4
  <2>2. /\ r.old = row[id].old /\ r.draft = row[id].draft
        /\ r.outcome = row[id].outcome /\ r.payload = p /\ r.posted = row[id].posted
    BY <1>0 DEF Row
  <2> HIDE DEF r
  <2>3. Becomes(id, r.outcome, r.payload, r.posted)
    BY <1>1, <2>1, <2>2
  <2> QED BY <2>2, <2>3
<1>5. ASSUME NEW p, NEW o, row' = [row EXCEPT ![id].payload = p, ![id].outcome = o]
      PROVE  Becomes(id, o, p, row[id].posted)
  <2> DEFINE r == [row[id] EXCEPT !.payload = p, !.outcome = o]
  <2>1. row' = [row EXCEPT ![id] = r]
    BY <1>0, <1>5
  <2>2. /\ r.old = row[id].old /\ r.draft = row[id].draft
        /\ r.outcome = o /\ r.payload = p /\ r.posted = row[id].posted
    BY <1>0 DEF Row
  <2> HIDE DEF r
  <2>3. Becomes(id, r.outcome, r.payload, r.posted)
    BY <1>1, <2>1, <2>2
  <2> QED BY <2>2, <2>3
<1>6. ASSUME row' = [row EXCEPT ![id].outcome = "pending", ![id].posted = TRUE]
      PROVE  Becomes(id, "pending", row[id].payload, TRUE)
  <2> DEFINE r == [row[id] EXCEPT !.outcome = "pending", !.posted = TRUE]
  <2>1. row' = [row EXCEPT ![id] = r]
    BY <1>0, <1>6
  <2>2. /\ r.old = row[id].old /\ r.draft = row[id].draft
        /\ r.outcome = "pending" /\ r.payload = row[id].payload /\ r.posted = TRUE
    BY <1>0 DEF Row
  <2> HIDE DEF r
  <2>3. Becomes(id, r.outcome, r.payload, r.posted)
    BY <1>1, <2>1, <2>2
  <2> QED BY <2>2, <2>3
<1> QED BY <1>2, <1>3, <1>4, <1>5, <1>6

\* A call or none: entering runDecision begins an execution, or settles a decision that needs none.
LEMMA CarryFacts ==
  ASSUME Typed, NEW w \in Executors, NEW id \in 1 .. last, NEW p \in Payloads, Carry(w, id, p)
  PROVE  \/ /\ Started(w, id, p)
            /\ Becomes(id, row[id].outcome, Stored(w, id, p), row[id].posted)
         \/ /\ Calls(TypeOf[p]) = 0
            /\ run' = run
            /\ \E o \in {"failed", "executed"} : Becomes(id, o, Stored(w, id, p), row[id].posted)
<1>0. id \in Ids
  BY QueuedIds, DecisionConstants DEF Typed, TypeOK, Ids
<1>1. CASE Calls(TypeOf[p]) > 0
  BY <1>0, <1>1, BecomesFacts DEF Carry, Started
<1>2. CASE ~(Calls(TypeOf[p]) > 0)
  <2>1. Calls(TypeOf[p]) = 0
    BY <1>2, CallsBound, DecisionConstants
  <2>2. PICK o \in {"failed", "executed"} :
          row' = [row EXCEPT ![id].payload = Stored(w, id, p), ![id].outcome = o]
    BY <1>2 DEF Carry
  <2>3. Becomes(id, o, Stored(w, id, p), row[id].posted)
    BY <1>0, <2>2, BecomesFacts
  <2>4. run' = run
    BY <1>2 DEF Carry
  <2> QED BY <2>1, <2>3, <2>4
<1> QED BY <1>1, <1>2

\* A new execution is at its first call.
LEMMA StartedFacts ==
  ASSUME Typed, NEW w \in Executors, NEW id \in Ids, NEW p \in Payloads, Started(w, id, p)
  PROVE  /\ run'[w] # None
         /\ run'[w].id = id /\ run'[w].payload = p /\ run'[w].call = 1 /\ ~run'[w].sent
         /\ \A v \in Executors \ {w} : run'[v] = run[v]
<1>0. run \in [Executors -> Run \cup {None}]
  BY DEF Typed, TypeOK
<1>1. run'[w] = [id |-> id, payload |-> p, call |-> 1, attempt |-> 0, sent |-> FALSE]
  BY <1>0 DEF Started
<1>2. /\ run'[w].id = id /\ run'[w].payload = p /\ run'[w].call = 1 /\ ~run'[w].sent
      /\ \A v \in Executors \ {w} : run'[v] = run[v]
  BY <1>0, <1>1 DEF Started
<1>3. run'[w] # None
  <2>1. [id |-> id, payload |-> p, call |-> 1, attempt |-> 0, sent |-> FALSE] \in Run
    BY DecisionConstants DEF Run
  <2> QED BY <1>1, <2>1, NoneIsNoRun
<1> QED BY <1>2, <1>3

\* What a step of an execution does, without retries after a lost answer.
LEMMA RunStepFacts ==
  ASSUME Typed, Careful, NEW w \in Executors, RunStep(w)
  PROVE  /\ run[w] \in Run /\ run[w] # None /\ run[w].id \in 1 .. last /\ run[w].id \in Ids
         /\ \A v \in Executors \ {w} : run'[v] = run[v]
         /\ \/ /\ Lands(w)
               /\ run'[w] \in Run /\ run'[w] # None
               /\ run'[w].id = run[w].id /\ run'[w].payload = run[w].payload
               /\ run'[w].call = run[w].call /\ run'[w].sent
            \/ /\ run[w].sent
               /\ UNCHANGED <<row, landed, did>>
               /\ run'[w] \in Run /\ run'[w] # None
               /\ run'[w].id = run[w].id /\ run'[w].payload = run[w].payload
               /\ run'[w].call = run[w].call + 1 /\ ~run'[w].sent
            \/ /\ ~run[w].sent
               /\ UNCHANGED <<row, landed, did>>
               /\ run'[w] \in Run /\ run'[w] # None
               /\ run'[w].id = run[w].id /\ run'[w].payload = run[w].payload
               /\ run'[w].call = run[w].call /\ run[w].call = 1 /\ ~run'[w].sent
            \/ /\ UNCHANGED <<landed, did>>
               /\ run'[w] = None
               /\ \E o \in {"executed", "failed"} :
                    /\ Becomes(run[w].id, o, row[run[w].id].payload, row[run[w].id].posted)
                    /\ o = "executed" => run[w].sent
<1> DEFINE r == run[w]
<1>0. run \in [Executors -> Run \cup {None}] /\ run' \in [Executors -> Run \cup {None}]
  <2>1. Next
    BY DEF Next
  <2> QED BY <2>1, TypedStep DEF Typed, TypeOK
<1>1. r \in Run /\ r # None /\ r.id \in 1 .. last /\ r.id \in Ids
  <2>1. r \in Run /\ r # None
    BY <1>0 DEF RunStep, Lands, Answered, Retry, GiveUp, Errs
  <2>2. r.id <= last
    BY <2>1 DEF Typed, RunFits
  <2> QED BY <2>1, <2>2, DecisionConstants DEF Run, Ids, Typed, TypeOK
<1>2. \A v \in Executors \ {w} : run'[v] = run[v]
  BY <1>0 DEF RunStep, Lands, Answered, Retry, GiveUp
<1>3. ASSUME NEW x \in Run, run' = [run EXCEPT ![w] = x] PROVE run'[w] = x /\ run'[w] \in Run /\ run'[w] # None
  BY <1>0, <1>3, NoneIsNoRun
<1>4. CASE Lands(w)
  <2> DEFINE x == [r EXCEPT !.sent = TRUE]
  <2>1. x \in Run /\ x.id = r.id /\ x.payload = r.payload /\ x.call = r.call /\ x.sent
    BY <1>1 DEF Run
  <2>2. run' = [run EXCEPT ![w] = x]
    BY <1>4 DEF Lands
  <2> HIDE DEF x
  <2>3. run'[w] = x /\ run'[w] \in Run /\ run'[w] # None
    BY <1>3, <2>1, <2>2
  <2> QED BY <1>1, <1>2, <1>4, <2>1, <2>3
<1>5. CASE Answered(w)
  <2>1. CASE r.call < Calls(TypeOf[r.payload])
    <3> DEFINE x == [r EXCEPT !.call = @ + 1, !.sent = FALSE]
    <3>1. TypeOf[r.payload] \in Types
      BY <1>1, DecisionConstants DEF Run, Typed, TypeOK
    <3>2. r.call + 1 \in 1 .. 2
      BY <1>1, <2>1, <3>1, CallsBound DEF Run
    <3>3. x \in Run /\ x.id = r.id /\ x.payload = r.payload /\ x.call = r.call + 1 /\ ~x.sent
      BY <1>1, <3>2 DEF Run
    <3>4. run' = [run EXCEPT ![w] = x] /\ UNCHANGED <<row, landed, did>> /\ r.sent
      BY <1>5, <2>1 DEF Answered
    <3> HIDE DEF x
    <3>5. run'[w] = x /\ run'[w] \in Run /\ run'[w] # None
      BY <1>3, <3>3, <3>4
    <3> QED BY <1>1, <1>2, <3>3, <3>4, <3>5
  <2>2. CASE ~(r.call < Calls(TypeOf[r.payload]))
    <3>1. run'[w] = None /\ Settle(r.id, "executed") /\ UNCHANGED <<landed, did>> /\ r.sent
      BY <1>0, <1>5, <2>2 DEF Answered
    <3>2. Becomes(r.id, "executed", row[r.id].payload, row[r.id].posted)
      BY <1>1, <3>1, BecomesFacts
    <3> QED BY <1>1, <1>2, <3>1, <3>2
  <2> QED BY <2>1, <2>2
<1>6. CASE Retry(w)
  <2>1. "transient" \in Faults /\ ~r.sent
    BY <1>6 DEF Retry, Errs, Careful
  <2>2. r.call = 1
    <3>1. r.payload \in Payloads /\ r.call <= Calls(TypeOf[r.payload]) /\ TypeOf[r.payload] \in Types
      BY <1>1, DecisionConstants DEF Run, Typed, RunFits
    <3> QED BY <1>1, <2>1, <3>1, CallsBound DEF Careful, Run
  <2> DEFINE x1 == [r EXCEPT !.call = 1]
             x2 == [x1 EXCEPT !.attempt = r.attempt + 1]
             x  == [x2 EXCEPT !.sent = FALSE]
  <2>3. r.attempt + 1 \in 0 .. Retries
    BY <1>1, <1>6, DecisionConstants DEF Retry, Run
  <2>4. x1 \in Run /\ x1.id = r.id /\ x1.payload = r.payload /\ x1.call = 1
    BY <1>1 DEF Run
  <2>5. x2 \in Run /\ x2.id = r.id /\ x2.payload = r.payload /\ x2.call = 1
    <3> HIDE DEF x1
    <3> QED BY <2>3, <2>4 DEF Run
  <2>6. x \in Run /\ x.id = r.id /\ x.payload = r.payload /\ x.call = 1 /\ ~x.sent
    <3> HIDE DEF x1, x2
    <3> QED BY <2>5 DEF Run
  <2>7. run' = [run EXCEPT ![w] = x] /\ UNCHANGED <<row, landed, did>>
    <3>1. [r EXCEPT !.call = 1, !.attempt = @ + 1, !.sent = FALSE] = x
      BY Zenon
    <3> HIDE DEF x
    <3> QED BY <1>6, <3>1 DEF Retry
  <2> HIDE DEF x
  <2>8. run'[w] = x /\ run'[w] \in Run /\ run'[w] # None
    BY <1>3, <2>6, <2>7
  <2> QED BY <1>1, <1>2, <2>1, <2>2, <2>6, <2>7, <2>8
<1>7. CASE GiveUp(w)
  <2>1. run'[w] = None /\ Settle(r.id, "failed") /\ UNCHANGED <<landed, did>>
    BY <1>0, <1>7 DEF GiveUp
  <2>2. Becomes(r.id, "failed", row[r.id].payload, row[r.id].posted)
    BY <1>1, <2>1, BecomesFacts
  <2> QED BY <1>1, <1>2, <2>1, <2>2
<1> QED BY <1>4, <1>5, <1>6, <1>7 DEF RunStep

-----------------------------------------------------------------------------
(* The invariant is inductive. *)

\* Nobody but the tick and one operator.
LEMMA Executing == Director \in Executors /\ Operators \subseteq Executors /\ Director \notin Operators
BY DecisionConstants DEF Executors

\* What the tick has and what the operator has are different decisions.
LEMMA Apart ==
  ASSUME Typed, Alone, Careful
  PROVE  /\ \A id \in queue[Director] : ~AtWork(id)
         /\ \A o \in Operators : \A id \in queue[o] : id \notin queue[Director] /\ (run[o] = None => ~AtWork(id))
         /\ \A w \in Executors : run[w] # None =>
              /\ run[w].id \notin queue[Director]
              /\ \A v \in Executors : run[v] # None /\ run[v].id = run[w].id => v = w
<1>1. \A o \in Operators : /\ \A id \in queue[o] : row[id].posted
                           /\ run[o] # None => row[run[o].id].posted
  BY DEF Alone, OperatorAlone
<1>2. /\ \A id \in queue[Director] : ~row[id].posted
      /\ run[Director] # None => ~row[run[Director].id].posted /\ run[Director].id \notin queue[Director]
  BY DEF Alone, TickAlone
<1>3. \A v, w \in Executors : v = w \/ (v = Director /\ w \in Operators) \/ (v \in Operators /\ w = Director)
  BY Executing DEF Careful, Executors
<1> QED BY <1>1, <1>2, <1>3 DEF AtWork, Executors

\* A step that leaves decisions, executions and the forge alone.
LEMMA NothingDone ==
  ASSUME Typed, Alone, UNCHANGED <<row, last, run, queue, landed, did>>, phase' \in {phase, "acting"} \/ Idle(Director)
  PROVE  Alone'
BY DEF Alone, TickAlone, OperatorAlone, FirstTime, DidIt, PendingUntouched, ExpiredOld, AtWork, Acted, Idle

\* A step that settles one decision, or leaves it posted; an execution of it ends.
LEMMA OneSettled ==
  ASSUME Typed, Alone, NEW id \in 1 .. last, NEW o, NEW p, NEW q \in {TRUE, row[id].posted},
         Becomes(id, o, p, q), o = "pending" => ~Acted(id), o = "expired" => row[id].old,
         \A w \in Executors : queue'[w] \subseteq queue[w],
         id \notin queue'[Director],
         \A w \in Executors : \/ run'[w] = run[w] /\ (run[w] # None => run[w].id # id)
                              \/ run'[w] = None /\ run[w] # None /\ run[w].id = id,
         UNCHANGED <<last, landed, did>>,
         phase' = phase \/ (phase = "marking" /\ phase' = "recording")
  PROVE  Alone'
<1>0. /\ \A i \in 1 .. last : i \in Ids
      /\ \A w \in Executors : queue[w] \subseteq Ids
      /\ \A w \in Executors : run[w] # None => run[w].id \in Ids
  BY QueuedIds, DecisionConstants DEF Typed, TypeOK, Ids, Run
<1>1. \A i \in Ids : i # id => row'[i] = row[i]
  BY DEF Becomes
<1>2. \A i \in Ids : row[i].posted => row'[i].posted
  BY <1>1 DEF Becomes
<1>3. \A w \in Executors : run'[w] # None => run'[w] = run[w] /\ run[w].id # id
  OBVIOUS
<1>4. TickAlone'
  <2>1. \A i \in queue'[Director] : i \in queue[Director] /\ row'[i] = row[i]
    BY <1>0, <1>1, Executing
  <2>2. run'[Director] # None => /\ run'[Director] = run[Director]
                                 /\ row'[run[Director].id] = row[run[Director].id]
    BY <1>0, <1>1, <1>3, Executing
  <2> QED BY <2>1, <2>2 DEF Alone, TickAlone
<1>5. OperatorAlone'
  <2> SUFFICES ASSUME NEW v \in Operators
               PROVE  /\ \A i \in queue'[v] : row'[i].posted
                      /\ run'[v] # None =>
                           /\ row'[run'[v].id].posted
                           /\ row'[run'[v].id].outcome \in {"pending", "expired"}
                           /\ row'[run'[v].id].payload = run'[v].payload
    BY DEF OperatorAlone
  <2>1. \A i \in queue'[v] : row'[i].posted
    BY <1>0, <1>2, Executing DEF Alone, OperatorAlone
  <2>2. run'[v] # None => run'[v] = run[v] /\ row'[run[v].id] = row[run[v].id]
    BY <1>0, <1>1, <1>3, Executing
  <2> QED BY <2>1, <2>2 DEF Alone, OperatorAlone
<1>6. FirstTime' /\ DidIt'
  BY <1>3 DEF Alone, FirstTime, DidIt
<1>7. PendingUntouched'
  <2> SUFFICES ASSUME NEW i \in 1 .. last, row'[i].outcome = "pending", ~AtWork(i)',
                      row'[i].posted \/ i \in queue'[Director]
               PROVE  ~Acted(i)
    BY DEF PendingUntouched, Acted
  <2>1. CASE i = id
    BY <2>1 DEF Becomes
  <2>2. CASE i # id
    <3>1. row'[i] = row[i]
      BY <1>0, <1>1, <2>2
    <3>2. ~AtWork(i) /\ (i \in queue'[Director] => i \in queue[Director])
      BY <2>2, Executing DEF AtWork
    <3> QED BY <3>1, <3>2 DEF Alone, PendingUntouched
  <2> QED BY <2>1, <2>2
<1>8. ExpiredOld'
  BY <1>0, <1>1 DEF Alone, ExpiredOld, Becomes
<1> QED BY <1>4, <1>5, <1>6, <1>7, <1>8 DEF Alone

\* A step that takes a decision up, with a call to make.
LEMMA OneStarted ==
  ASSUME Typed, Alone, NEW w \in Executors, NEW id \in queue[w], NEW p \in Payloads, Started(w, id, p),
         Becomes(id, "pending", p, row[id].posted), ~Acted(id), run[w] = None,
         row[id].posted <=> w \in Operators, w = Director => phase = "acting",
         id \notin queue'[Director],
         \A v \in Executors : queue'[v] \subseteq queue[v],
         \A v \in Executors : run[v] # None => run[v].id # id,
         UNCHANGED <<last, landed, did, phase>>
  PROVE  Alone'
<1>0. /\ \A i \in 1 .. last : i \in Ids
      /\ id \in Ids /\ id \in 1 .. last
      /\ \A v \in Executors : queue[v] \subseteq Ids
      /\ \A v \in Executors : run[v] # None => run[v].id \in Ids
  BY QueuedIds, DecisionConstants DEF Typed, TypeOK, Ids, Run
<1>1. /\ \A i \in Ids : i # id => row'[i] = row[i]
      /\ \A i \in Ids : row'[i].posted = row[i].posted
  BY DEF Becomes
<1>2. /\ run'[w] # None
      /\ run'[w].id = id /\ run'[w].payload = p /\ run'[w].call = 1 /\ ~run'[w].sent
      /\ \A v \in Executors \ {w} : run'[v] = run[v]
  BY <1>0, StartedFacts
<1>3. TickAlone'
  <2>1. \A i \in queue'[Director] : i \in queue[Director] /\ row'[i] = row[i]
    BY <1>0, <1>1, Executing
  <2>2. CASE w = Director
    <3>1. phase' = "acting"
      BY <2>2
    <3> QED BY <1>2, <2>1, <2>2, <3>1, Executing DEF Alone, TickAlone, Becomes
  <2>3. CASE w # Director
    <3>1. run'[Director] = run[Director]
      BY <1>2, <2>3, Executing
    <3>2. run[Director] # None => row'[run[Director].id] = row[run[Director].id]
      BY <1>0, <1>1, Executing
    <3>3. queue'[Director] # {} => queue[Director] # {}
      BY <2>1
    <3> QED BY <2>1, <3>1, <3>2, <3>3 DEF Alone, TickAlone
  <2> QED BY <2>2, <2>3
<1>4. OperatorAlone'
  <2> SUFFICES ASSUME NEW v \in Operators
               PROVE  /\ \A i \in queue'[v] : row'[i].posted
                      /\ run'[v] # None =>
                           /\ row'[run'[v].id].posted
                           /\ row'[run'[v].id].outcome \in {"pending", "expired"}
                           /\ row'[run'[v].id].payload = run'[v].payload
    BY DEF OperatorAlone
  <2>1. \A i \in queue'[v] : row'[i].posted
    BY <1>0, <1>1, Executing DEF Alone, OperatorAlone
  <2>2. CASE v = w
    BY <1>0, <1>1, <1>2, <2>1, <2>2 DEF Becomes
  <2>3. CASE v # w
    <3>1. run'[v] # None => run'[v] = run[v] /\ row'[run[v].id] = row[run[v].id]
      BY <1>0, <1>1, <1>2, <2>3, Executing
    <3> QED BY <2>1, <3>1 DEF Alone, OperatorAlone
  <2> QED BY <2>2, <2>3
<1>5. FirstTime'
  <2> SUFFICES ASSUME NEW v \in Executors, run'[v] # None, NEW k \in 1 .. 2,
                      k > run'[v].call \/ (k = run'[v].call /\ ~run'[v].sent)
               PROVE  landed[run'[v].id][k] = 0
    BY DEF FirstTime
  <2>1. CASE v = w
    <3>1. landed[id][k] \in 0 .. 2 /\ ~(landed[id][k] > 0)
      BY <1>0 DEF Typed, TypeOK, Acted
    <3> QED BY <1>2, <2>1, <3>1
  <2>2. CASE v # w
    BY <1>2, <2>2 DEF Alone, FirstTime
  <2> QED BY <2>1, <2>2
<1>6. DidIt'
  <2>1. ~(run'[w].sent \/ run'[w].call > 1)
    BY <1>2
  <2>2. \A v \in Executors : v # w => run'[v] = run[v]
    BY <1>2
  <2> QED BY <2>1, <2>2 DEF Alone, DidIt
<1>7. PendingUntouched'
  <2> SUFFICES ASSUME NEW i \in 1 .. last, row'[i].outcome = "pending", ~AtWork(i)',
                      row'[i].posted \/ i \in queue'[Director]
               PROVE  ~Acted(i)
    BY DEF PendingUntouched, Acted
  <2>1. CASE i = id
    BY <2>1
  <2>2. CASE i # id
    <3>1. row'[i] = row[i]
      BY <1>0, <1>1, <2>2
    <3>2. ~AtWork(i) /\ (i \in queue'[Director] => i \in queue[Director])
      BY <1>2, <2>2, Executing DEF AtWork
    <3> QED BY <3>1, <3>2 DEF Alone, PendingUntouched
  <2> QED BY <2>1, <2>2
<1>8. ExpiredOld'
  BY <1>0, <1>1 DEF Alone, ExpiredOld, Becomes
<1> QED BY <1>3, <1>4, <1>5, <1>6, <1>7, <1>8 DEF Alone

LEMMA ExecuteAlone ==
  ASSUME Typed, Alone, Careful, NEW id \in Ids, ExecuteNext(id)
  PROVE  Alone'
<1> DEFINE p == row[id].draft
<1>0. /\ id \in queue[Director] /\ id \in 1 .. last /\ run[Director] = None
      /\ row[id].outcome = "pending" /\ ~row[id].posted /\ row[id].payload = p
      /\ p \in Payloads
  <2>1. id \in queue[Director] /\ run[Director] = None
    BY DEF ExecuteNext, Head
  <2>2. id \in 1 .. last
    BY <2>1, QueuedIds, Executing DEF Typed
  <2> QED BY <2>1, <2>2 DEF Typed, TypeOK, Alone, TickAlone
<1>1. ~AtWork(id) /\ ~Acted(id)
  BY <1>0, Apart DEF Alone, PendingUntouched
<1>2. \A w \in Executors : run[w] # None => run[w].id # id
  BY <1>1 DEF AtWork
<1>3. /\ id \notin queue'[Director]
      /\ \A w \in Executors : queue'[w] \subseteq queue[w]
      /\ UNCHANGED <<last, landed, did, phase>>
  <2>1. queue' = [queue EXCEPT ![Director] = queue[Director] \ {id}] /\ queue \in [Executors -> SUBSET (1 .. last)]
    BY DEF ExecuteNext, Typed, TypeOK
  <2>2. UNCHANGED <<last, landed, did, phase>>
    BY DEF ExecuteNext
  <2> QED BY <2>1, <2>2, Executing
<1>4. \/ /\ run' = run
         /\ \E o \in {"dry_run", "skipped"} : Settle(id, o)
      \/ /\ run' = run
         /\ row' = [row EXCEPT ![id].outcome = "pending", ![id].posted = TRUE]
      \/ Carry(Director, id, p)
  BY DEF ExecuteNext
<1>5. CASE run' = run /\ \E o \in {"dry_run", "skipped"} : Settle(id, o)
  <2>1. PICK o \in {"dry_run", "skipped"} : Becomes(id, o, row[id].payload, row[id].posted)
    BY <1>5, BecomesFacts
  <2> QED BY <1>0, <1>1, <1>2, <1>3, <1>5, <2>1, OneSettled
<1>6. CASE run' = run /\ row' = [row EXCEPT ![id].outcome = "pending", ![id].posted = TRUE]
  <2>1. Becomes(id, "pending", row[id].payload, TRUE)
    BY <1>6, BecomesFacts
  <2> QED BY <1>0, <1>1, <1>2, <1>3, <1>6, <2>1, OneSettled
<1>7. CASE Carry(Director, id, p)
  <2>0. Stored(Director, id, p) = p
    BY <1>0 DEF Stored
  <2>1. CASE Started(Director, id, p) /\ Becomes(id, row[id].outcome, p, row[id].posted)
    <3>1. phase = "acting"
      BY DEF ExecuteNext
    <3> QED BY <1>0, <1>1, <1>2, <1>3, <2>1, <3>1, OneStarted, Executing
  <2>2. CASE run' = run /\ \E o \in {"failed", "executed"} : Becomes(id, o, p, row[id].posted)
    BY <1>0, <1>1, <1>2, <1>3, <2>2, OneSettled
  <2> QED BY <1>0, <1>7, <2>0, <2>1, <2>2, CarryFacts, Executing
<1> QED BY <1>4, <1>5, <1>6, <1>7

LEMMA ApproveAlone ==
  ASSUME Typed, Alone, Careful, NEW o \in Operators, NEW id \in Ids, ApproveNext(o, id)
  PROVE  Alone'
<1> DEFINE p == Asked(o, id)
<1>0. /\ o \in Executors /\ id \in queue[o] /\ id \in 1 .. last /\ run[o] = None
      /\ row[id].posted /\ id \notin queue[Director] /\ p \in Payloads
  <2>1. o \in Executors /\ id \in queue[o] /\ run[o] = None
    BY Executing DEF ApproveNext, Head
  <2>2. id \in 1 .. last
    BY <2>1, QueuedIds DEF Typed
  <2>3. id \notin queue[Director] /\ row[id].posted
    BY <2>1, Apart DEF Alone, OperatorAlone
  <2> QED BY <2>1, <2>2, <2>3 DEF Asked, Typed, TypeOK
<1>1. ~AtWork(id)
  BY <1>0, Apart
<1>2. \A w \in Executors : run[w] # None => run[w].id # id
  BY <1>1 DEF AtWork
<1>3. /\ id \notin queue'[Director]
      /\ \A w \in Executors : queue'[w] \subseteq queue[w]
      /\ UNCHANGED <<last, landed, did, phase>>
  <2>1. queue' = [queue EXCEPT ![o] = queue[o] \ {id}] /\ queue \in [Executors -> SUBSET (1 .. last)]
    BY DEF ApproveNext, Typed, TypeOK
  <2>2. UNCHANGED <<last, landed, did, phase>>
    BY DEF ApproveNext
  <2> QED BY <1>0, <2>1, <2>2, Executing
<1>4. \/ row' = row /\ run' = run /\ row[id].outcome # "pending"
      \/ row' = [row EXCEPT ![id].payload = p, ![id].outcome = "skipped"] /\ run' = run
      \/ Carry(o, id, p) /\ row[id].outcome = "pending"
  BY DEF ApproveNext, Asked
<1> HIDE DEF p
<1>5. CASE row' = row /\ run' = run /\ row[id].outcome # "pending"
  <2>1. Becomes(id, row[id].outcome, row[id].payload, row[id].posted)
    BY <1>5, BecomesFacts
  <2>2. row[id].outcome = "expired" => row[id].old
    BY <1>0 DEF Alone, ExpiredOld
  <2>3. row[id].outcome # "pending" /\ \A w \in Executors : run'[w] = run[w] /\ (run[w] # None => run[w].id # id)
    BY <1>2, <1>5
  <2>4. id \in 1 .. last /\ row[id].posted \in {TRUE, row[id].posted}
    BY <1>0
  <2> QED BY <1>3, <2>1, <2>2, <2>3, <2>4, OneSettled, ZenonT(30)
<1>6. CASE row' = [row EXCEPT ![id].payload = p, ![id].outcome = "skipped"] /\ run' = run
  <2>1. Becomes(id, "skipped", p, row[id].posted)
    BY <1>6, BecomesFacts
  <2>2. run' = run
    BY <1>6
  <2>3. \A w \in Executors : run'[w] = run[w] /\ (run[w] # None => run[w].id # id)
    BY <1>2, <2>2
  <2>4. id \in 1 .. last /\ row[id].posted \in {TRUE, row[id].posted}
    BY <1>0
  <2>5. ("skipped" = "pending" => ~Acted(id)) /\ ("skipped" = "expired" => row[id].old)
    OBVIOUS
  <2> QED BY <1>3, <2>1, <2>3, <2>4, <2>5, OneSettled
<1>7. CASE Carry(o, id, p) /\ row[id].outcome = "pending"
  <2>0. Stored(o, id, p) = p /\ ~Acted(id)
    BY <1>0, <1>1, <1>7, Executing DEF Stored, Alone, PendingUntouched
  <2>1. CASE Started(o, id, p) /\ Becomes(id, row[id].outcome, p, row[id].posted)
    BY <1>0, <1>1, <1>2, <1>3, <1>7, <2>0, <2>1, OneStarted, Executing
  <2>2. CASE run' = run /\ \E x \in {"failed", "executed"} : Becomes(id, x, p, row[id].posted)
    BY <1>0, <1>1, <1>2, <1>3, <2>2, OneSettled
  <2> QED BY <1>0, <1>7, <2>0, <2>1, <2>2, CarryFacts
<1> QED BY <1>4, <1>5, <1>6, <1>7

LEMMA RequestAlone ==
  ASSUME Typed, Alone, Careful, NEW o \in Operators, NEW id \in Ids, Request(o, id) \/ Reject(o, id)
  PROVE  Alone'
<1>0. o \in Executors /\ run[o] = None /\ queue[o] = {} /\ id \in Reachable
  BY Executing DEF Request, Reject, Idle
<1>1. row[id].outcome = "pending" /\ row[id].posted /\ id \in 1 .. last
  BY <1>0, DecisionConstants DEF Reachable, Careful, Typed, TypeOK, Ids
<1>2. CASE Request(o, id)
  <2>1. queue' = [queue EXCEPT ![o] = {id}] /\ queue \in [Executors -> SUBSET (1 .. last)]
    BY <1>2 DEF Request, Typed, TypeOK
  <2>2. UNCHANGED <<row, last, phase, run, landed, did>>
    BY <1>2 DEF Request
  <2>3. queue'[Director] = queue[Director]
    BY <2>1, Executing
  <2>4. TickAlone'
    BY <2>2, <2>3 DEF Alone, TickAlone, Idle
  <2>5. OperatorAlone'
    <3>1. \A v \in Operators : queue'[v] \in {queue[v], {id}}
      BY <2>1, Executing
    <3> QED BY <1>1, <2>2, <3>1 DEF Alone, OperatorAlone
  <2>6. FirstTime' /\ DidIt' /\ PendingUntouched' /\ ExpiredOld'
    BY <2>2, <2>3 DEF Alone, FirstTime, DidIt, PendingUntouched, ExpiredOld, AtWork, Acted
  <2> QED BY <2>4, <2>5, <2>6 DEF Alone
<1>3. CASE Reject(o, id)
  <2>1. Becomes(id, "rejected", row[id].payload, row[id].posted)
    BY <1>3, BecomesFacts DEF Reject
  <2>2. run' = run /\ queue' = queue /\ UNCHANGED <<last, landed, did, phase>>
    BY <1>3 DEF Reject
  <2>3. id \notin queue[Director]
    BY <1>1 DEF Alone, TickAlone
  <2>4. \A w \in Executors : run[w] # None => run[w].id # id
    <3>1. \A w \in Executors : w = o \/ w = Director
      BY DEF Careful, Executors
    <3> QED BY <1>0, <1>1, <3>1 DEF Alone, TickAlone
  <2>5. /\ \A w \in Executors : queue'[w] \subseteq queue[w]
        /\ id \notin queue'[Director]
        /\ \A w \in Executors : run'[w] = run[w] /\ (run[w] # None => run[w].id # id)
        /\ UNCHANGED <<last, landed, did, phase>>
    BY <2>2, <2>3, <2>4
  <2>6. id \in 1 .. last /\ row[id].posted \in {TRUE, row[id].posted}
    BY <1>1
  <2>7. ("rejected" = "pending" => ~Acted(id)) /\ ("rejected" = "expired" => row[id].old)
    OBVIOUS
  <2> QED BY <2>1, <2>5, <2>6, <2>7, OneSettled
<1> QED BY <1>2, <1>3

LEMMA AgeAlone ==
  ASSUME Typed, Alone, NEW id \in Ids, Age(id)
  PROVE  Alone'
<1> DEFINE r == [row[id] EXCEPT !.old = TRUE]
<1>0. row \in [Ids -> Row] /\ row[id] \in Row
  BY DEF Typed, TypeOK
<1>1. row' = [row EXCEPT ![id] = r] /\ UNCHANGED <<last, phase, queue, run, landed, did>>
  BY <1>0 DEF Age
<1>2. r.outcome = row[id].outcome /\ r.payload = row[id].payload /\ r.draft = row[id].draft /\ r.posted = row[id].posted /\ r.old
  BY <1>0 DEF Row
<1> HIDE DEF r
<1>3. \A i \in Ids : /\ row'[i].outcome = row[i].outcome /\ row'[i].payload = row[i].payload
                     /\ row'[i].draft = row[i].draft /\ row'[i].posted = row[i].posted
                     /\ row[i].old => row'[i].old
  BY <1>0, <1>1, <1>2
<1>4. /\ \A i \in 1 .. last : i \in Ids
      /\ \A w \in Executors : queue[w] \subseteq Ids
      /\ \A w \in Executors : run[w] # None => run[w].id \in Ids
  BY QueuedIds, DecisionConstants DEF Typed, TypeOK, Ids, Run
<1>5. TickAlone'
  BY <1>1, <1>3, <1>4, Executing DEF Alone, TickAlone, Idle
<1>6. OperatorAlone'
  BY <1>1, <1>3, <1>4, Executing DEF Alone, OperatorAlone
<1>7. FirstTime' /\ DidIt' /\ PendingUntouched' /\ ExpiredOld'
  BY <1>1, <1>3, <1>4 DEF Alone, FirstTime, DidIt, PendingUntouched, ExpiredOld, AtWork, Acted
<1> QED BY <1>5, <1>6, <1>7 DEF Alone

LEMMA BeginRoundAlone ==
  ASSUME Typed, Alone, BeginRound
  PROVE  Alone'
<1>0. row \in [Ids -> Row]
  BY DEF Typed, TypeOK
<1>1. UNCHANGED <<last, queue, run, landed, did>> /\ Idle(Director)
  BY DEF BeginRound, Alone, TickAlone, Idle
<1>2. \A i \in Ids : row'[i] = IF Stale(i) THEN [row[i] EXCEPT !.outcome = "expired"] ELSE row[i]
  BY DEF BeginRound
<1>3. ASSUME NEW i \in Ids
      PROVE  /\ row'[i].payload = row[i].payload /\ row'[i].posted = row[i].posted /\ row'[i].old = row[i].old
             /\ \/ row'[i].outcome = row[i].outcome
                \/ row'[i].outcome = "expired" /\ row[i].outcome = "pending" /\ row[i].old
  BY <1>0, <1>2 DEF Stale, Row
<1>4. /\ \A i \in 1 .. last : i \in Ids
      /\ \A w \in Executors : queue[w] \subseteq Ids
      /\ \A w \in Executors : run[w] # None => run[w].id \in Ids
  BY QueuedIds, DecisionConstants DEF Typed, TypeOK, Ids, Run
<1>5. TickAlone'
  BY <1>1 DEF TickAlone, Idle
<1>6. OperatorAlone'
  BY <1>1, <1>3, <1>4, Executing DEF Alone, OperatorAlone
<1>7. FirstTime' /\ DidIt' /\ PendingUntouched' /\ ExpiredOld'
  BY <1>1, <1>3, <1>4 DEF Alone, FirstTime, DidIt, PendingUntouched, ExpiredOld, AtWork, Acted
<1> QED BY <1>5, <1>6, <1>7 DEF Alone

\* What a call that lands adds to what the forge has done.
LEMMA LandsAdds ==
  ASSUME Typed, NEW w \in Executors, Lands(w)
  PROVE  /\ \A i \in Ids, k \in 1 .. 2 :
              ~(i = run[w].id /\ k = run[w].call) => landed'[i][k] = landed[i][k]
         /\ landed[run[w].id][run[w].call] = 0 => landed'[run[w].id][run[w].call] = 1
         /\ \A i \in Ids : did[i] \subseteq did'[i]
         /\ run[w].payload \in did'[run[w].id]
<1> DEFINE i == run[w].id
           k == run[w].call
           n == IF landed[i][k] < 2 THEN landed[i][k] + 1 ELSE landed[i][k]
<1>0. landed \in [Ids -> [1 .. 2 -> 0 .. 2]] /\ did \in [Ids -> SUBSET Payloads]
  BY DEF Typed, TypeOK
<1>1. i \in Ids /\ k \in 1 .. 2
  BY DEF Lands, Typed, TypeOK, Run
<1>2. landed[i][k] = 0 => n = 1
  OBVIOUS
<1>3. landed' = [landed EXCEPT ![i] = [landed[i] EXCEPT ![k] = n]] /\ did' = [did EXCEPT ![i] = did[i] \cup {run[w].payload}]
  BY DEF Lands
<1> HIDE DEF i, k, n
<1>4. \A j \in Ids, m \in 1 .. 2 : landed'[j][m] = IF j = i /\ m = k THEN n ELSE landed[j][m]
  BY <1>0, <1>1, <1>3
<1>5. (\A j \in Ids : did[j] \subseteq did'[j]) /\ run[w].payload \in did'[i]
  BY <1>0, <1>1, <1>3
<1> QED BY <1>1, <1>2, <1>4, <1>5 DEF i, k

\* Going on with an execution: a call lands, is answered, or is tried again before it landed.
LEMMA GoesOnAlone ==
  ASSUME Typed, Alone, Careful, NEW w \in Executors, UNCHANGED <<row, last, queue, phase>>,
         run[w] \in Run, run[w] # None, run'[w] \in Run, run'[w] # None, run[w].id \in Ids,
         \A v \in Executors \ {w} : run'[v] = run[v],
         run'[w].id = run[w].id, run'[w].payload = run[w].payload,
         \/ Lands(w) /\ run'[w].call = run[w].call /\ run'[w].sent
         \/ UNCHANGED <<landed, did>> /\ run[w].sent /\ run'[w].call = run[w].call + 1 /\ ~run'[w].sent
         \/ UNCHANGED <<landed, did>> /\ ~run[w].sent /\ run'[w].call = run[w].call /\ run[w].call = 1 /\ ~run'[w].sent
  PROVE  Alone'
<1>0. \A v \in Executors : run[v] # None => run[v].id \in Ids
  BY DEF Typed, TypeOK, Run
<1>1. \A v \in Executors : /\ run'[v] # None <=> run[v] # None
                           /\ run[v] # None => run'[v].id = run[v].id /\ run'[v].payload = run[v].payload
  OBVIOUS
<1>2. TickAlone'
  BY <1>1, Executing DEF Alone, TickAlone, Idle
<1>3. OperatorAlone'
  BY <1>1, Executing DEF Alone, OperatorAlone
<1>4. \A v \in Executors \ {w} : run[v] # None => run[v].id # run[w].id
  BY Apart
<1>5. \/ UNCHANGED <<landed, did>>
      \/ /\ Lands(w) /\ run'[w].call = run[w].call /\ run'[w].sent
         /\ \A i \in Ids, k \in 1 .. 2 : ~(i = run[w].id /\ k = run[w].call) => landed'[i][k] = landed[i][k]
  BY LandsAdds
<1>6. FirstTime'
  <2> SUFFICES ASSUME NEW v \in Executors, run'[v] # None, NEW k \in 1 .. 2,
                      k > run'[v].call \/ (k = run'[v].call /\ ~run'[v].sent)
               PROVE  landed'[run'[v].id][k] = 0
    BY DEF FirstTime
  <2>1. CASE v = w
    <3>0. run[w].call \in 1 .. 2
      BY DEF Run
    <3>1. k > run[w].call \/ (k = run[w].call /\ ~run[w].sent)
      BY <2>1, <3>0
    <3>2. landed[run[w].id][k] = 0
      BY <3>1 DEF Alone, FirstTime
    <3>3. CASE UNCHANGED <<landed, did>>
      BY <2>1, <3>2, <3>3
    <3>4. CASE Lands(w) /\ run'[w].call = run[w].call /\ run'[w].sent
      <4>1. k # run[w].call
        BY <2>1, <3>0, <3>4
      <4> QED BY <2>1, <3>2, <3>4, <4>1, LandsAdds
    <3> QED BY <3>3, <3>4, <1>5
  <2>2. CASE v # w
    <3>1. run'[v] = run[v] /\ run[v] # None
      BY <2>2
    <3>2. landed[run[v].id][k] = 0
      BY <3>1 DEF Alone, FirstTime
    <3> QED BY <1>0, <1>4, <1>5, <2>2, <3>1, <3>2
  <2> QED BY <2>1, <2>2
<1>7. DidIt'
  <2> SUFFICES ASSUME NEW v \in Executors, run'[v] # None, run'[v].sent \/ run'[v].call > 1
               PROVE  run'[v].payload \in did'[run'[v].id]
    BY DEF DidIt
  <2>1. \A i \in Ids : did[i] \subseteq did'[i]
    BY LandsAdds
  <2>2. CASE v = w
    <3>1. CASE Lands(w)
      BY <2>2, <3>1, LandsAdds
    <3>2. CASE UNCHANGED <<landed, did>> /\ run[w].sent
      BY <2>2, <3>2 DEF Alone, DidIt
    <3>3. CASE run'[w].call = 1 /\ ~run'[w].sent
      BY <2>2, <3>3
    <3> QED BY <3>1, <3>2, <3>3
  <2>3. CASE v # w
    <3>1. run'[v] = run[v] /\ run[v] # None
      BY <2>3
    <3>2. run[v].payload \in did[run[v].id]
      BY <3>1 DEF Alone, DidIt
    <3> QED BY <1>0, <2>1, <3>1, <3>2
  <2> QED BY <2>2, <2>3
<1>8. PendingUntouched'
  <2> SUFFICES ASSUME NEW i \in 1 .. last, row[i].outcome = "pending", ~AtWork(i)',
                      row[i].posted \/ i \in queue[Director]
               PROVE  ~Acted(i)'
    BY DEF PendingUntouched
  <2>1. ~AtWork(i) /\ i # run[w].id
    BY <1>1 DEF AtWork
  <2>2. i \in Ids /\ ~Acted(i)
    BY <2>1, DecisionConstants DEF Alone, PendingUntouched, Typed, TypeOK, Ids
  <2> QED BY <1>5, <2>1, <2>2 DEF Acted
<1>9. ExpiredOld'
  BY DEF Alone, ExpiredOld
<1> QED BY <1>2, <1>3, <1>6, <1>7, <1>8, <1>9 DEF Alone

LEMMA RunStepAlone ==
  ASSUME Typed, Alone, Careful, NEW w \in Executors, RunStep(w)
  PROVE  Alone'
<1>0. UNCHANGED <<last, queue, phase>>
  BY DEF RunStep, Lands, Answered, Retry, GiveUp
<1>1. /\ run[w] \in Run /\ run[w] # None /\ run[w].id \in 1 .. last /\ run[w].id \in Ids
      /\ \A v \in Executors \ {w} : run'[v] = run[v]
  BY RunStepFacts
<1>2. \/ Lands(w) /\ run'[w].call = run[w].call /\ run'[w].sent
      \/ UNCHANGED <<landed, did>> /\ run[w].sent /\ run'[w].call = run[w].call + 1 /\ ~run'[w].sent
      \/ UNCHANGED <<landed, did>> /\ ~run[w].sent /\ run'[w].call = run[w].call /\ run[w].call = 1 /\ ~run'[w].sent
      \/ run'[w] = None
  BY RunStepFacts
<1>3. CASE run'[w] # None
  <2>1. /\ run'[w] \in Run /\ run'[w].id = run[w].id /\ run'[w].payload = run[w].payload
        /\ row' = row
    BY <1>3, RunStepFacts DEF Lands
  <2> QED BY <1>0, <1>1, <1>2, <1>3, <2>1, GoesOnAlone
<1>4. CASE run'[w] = None
  <2>2. PICK o \in {"executed", "failed"} : Becomes(run[w].id, o, row[run[w].id].payload, row[run[w].id].posted)
    BY <1>1, <1>4, RunStepFacts
  <2>3. UNCHANGED <<landed, did>>
    BY <1>1, <1>4, RunStepFacts
  <2>4. \A v \in Executors : \/ run'[v] = run[v] /\ (run[v] # None => run[v].id # run[w].id)
                             \/ run'[v] = None /\ run[v] # None /\ run[v].id = run[w].id
    BY <1>1, <1>4, Apart
  <2>5. run[w].id \notin queue'[Director] /\ \A v \in Executors : queue'[v] \subseteq queue[v]
    BY <1>0, <1>1, Apart
  <2>6. (o = "pending" => ~Acted(run[w].id)) /\ (o = "expired" => row[run[w].id].old)
    BY <2>2
  <2>7. row[run[w].id].posted \in {TRUE, row[run[w].id].posted}
    OBVIOUS
  <2> QED BY <1>0, <1>1, <2>2, <2>3, <2>4, <2>5, <2>6, <2>7, OneSettled
<1> QED BY <1>3, <1>4

LEMMA RecordNextAlone ==
  ASSUME Typed, AllowedRuns, Alone, RecordNext
  PROVE  Alone'
<1>0. /\ last' \in Ids /\ UNCHANGED <<run, landed, did>> /\ run[Director] = None
      /\ \A id \in 1 .. last : id \in Ids /\ id # last' /\ row'[id] = row[id]
      /\ \A id \in 1 .. last' : id \in 1 .. last \/ id = last'
      /\ \A w \in Executors \ {Director} : queue'[w] = queue[w]
      /\ ~row'[last'].posted /\ row'[last'].payload = row'[last'].draft /\ row'[last'].outcome = "pending"
      /\ queue'[Director] \subseteq queue[Director] \cup {last'} /\ phase' \in {"recording", "marking"}
  <2>1. run[Director] = None
    BY DEF RecordNext, Alone, TickAlone
  <2> QED BY <2>1, OneMore, NewRowFields DEF Typed
<1>1. \A w \in Executors : queue[w] \subseteq 1 .. last /\ (run[w] # None => run[w].id \in 1 .. last)
  <2>1. \A w \in Executors : run[w] # None => run[w].id \in 1 .. last
    BY DecisionConstants DEF Typed, TypeOK, Run, Ids, RunFits
  <2> QED BY <2>1, QueuedIds DEF Typed
<1>2. TickAlone'
  <2>1. ASSUME NEW id \in queue'[Director]
        PROVE  row'[id].outcome = "pending" /\ ~row'[id].posted /\ row'[id].payload = row'[id].draft
    <3>1. CASE id = last'
      BY <1>0, <3>1
    <3>2. CASE id \in queue[Director]
      BY <1>0, <1>1, <3>2, Executing DEF Alone, TickAlone
    <3> QED BY <1>0, <3>1, <3>2
  <2> QED BY <1>0, <2>1 DEF TickAlone
<1>3. OperatorAlone'
  <2>1. \A o \in Operators : queue'[o] = queue[o] /\ run'[o] = run[o] /\ o \in Executors
    BY <1>0, Executing
  <2> QED BY <1>0, <1>1, <2>1 DEF Alone, OperatorAlone
<1>4. FirstTime' /\ DidIt'
  BY <1>0 DEF Alone, FirstTime, DidIt
<1>5. PendingUntouched'
  <2> SUFFICES ASSUME NEW id \in 1 .. last', row'[id].outcome = "pending", ~AtWork(id)',
                      row'[id].posted \/ id \in queue'[Director]
               PROVE  ~Acted(id)
    BY <1>0 DEF PendingUntouched, Acted
  <2>1. CASE id \in 1 .. last
    BY <1>0, <2>1 DEF Alone, PendingUntouched, AtWork
  <2>2. CASE id = last'
    <3>1. last' > last
      BY OneMore DEF Typed
    <3> QED BY <1>0, <2>2, <3>1 DEF AllowedRuns
  <2> QED BY <1>0, <2>1, <2>2
<1>6. ExpiredOld'
  BY <1>0 DEF Alone, ExpiredOld
<1> QED BY <1>2, <1>3, <1>4, <1>5, <1>6 DEF Alone

LEMMA MarkTwinAlone ==
  ASSUME Typed, Alone, TwinAlone, MarkTwin
  PROVE  Alone'
<1>1. last \in 1 .. last /\ last \in Ids /\ Orphan(last)
  BY DecisionConstants DEF MarkTwin, TwinAlone, Typed, TypeOK, Ids
<1>2. Becomes(last, "skipped", row[last].payload, row[last].posted)
  BY <1>1, BecomesFacts DEF MarkTwin
<1>3. UNCHANGED <<last, queue, run, landed, did>> /\ phase = "marking" /\ phase' = "recording"
  BY DEF MarkTwin
<1>4. \A w \in Executors : last \notin queue[w] /\ (run[w] # None => run[w].id # last)
  BY <1>1 DEF Orphan
<1>5. last \notin queue'[Director] /\ row[last].posted \in {TRUE, row[last].posted}
  BY <1>3, <1>4, Executing
<1>6. \A w \in Executors : queue'[w] \subseteq queue[w]
  BY <1>3
<1>7. \A w \in Executors : \/ run'[w] = run[w] /\ (run[w] # None => run[w].id # last)
                           \/ run'[w] = None /\ run[w] # None /\ run[w].id = last
  BY <1>3, <1>4
<1>8. UNCHANGED <<last, landed, did>> /\ (phase' = phase \/ (phase = "marking" /\ phase' = "recording"))
  BY <1>3
<1>9. ("skipped" = "pending" => ~Acted(last)) /\ ("skipped" = "expired" => row[last].old)
  OBVIOUS
<1> QED BY <1>1, <1>2, <1>5, <1>6, <1>7, <1>8, <1>9, OneSettled

\* The director dies: what it was at stays pending, and was never posted.
LEMMA DirectorDiesAlone ==
  ASSUME Typed, Alone, Careful, DirectorDies
  PROVE  Alone'
<1>1. Bridges = {} /\ Operators = Admins /\ \A o \in Operators : o \notin {Director} \cup Bridges
  BY Executing DEF DirectorDies, Careful, Operators
<1>2. /\ queue'[Director] = {} /\ run'[Director] = None
      /\ \A o \in Operators : queue'[o] = queue[o] /\ run'[o] = run[o]
      /\ UNCHANGED <<row, last, landed, did>>
  BY <1>1, Executing DEF DirectorDies, Forget
<1>3. TickAlone'
  BY <1>2 DEF TickAlone, Idle
<1>4. OperatorAlone'
  BY <1>2 DEF Alone, OperatorAlone
<1>5. \A w \in Executors : run'[w] # None => w \in Operators /\ run'[w] = run[w]
  BY <1>2 DEF Executors
<1>6. FirstTime' /\ DidIt'
  BY <1>2, <1>5 DEF Alone, FirstTime, DidIt
<1>9. PendingUntouched'
  <2> SUFFICES ASSUME NEW i \in 1 .. last, row[i].outcome = "pending", ~AtWork(i)', row[i].posted PROVE ~Acted(i)
    BY <1>2 DEF PendingUntouched, Acted
  <2>1. ASSUME NEW w \in Executors, run[w] # None, run[w].id = i PROVE FALSE
    <3>1. w \in Operators
      BY <2>1 DEF Alone, TickAlone, Executors
    <3> QED BY <1>2, <2>1, <3>1 DEF AtWork
  <2> QED BY <2>1 DEF Alone, PendingUntouched, AtWork
<1>8. ExpiredOld'
  BY <1>2 DEF Alone, ExpiredOld
<1> QED BY <1>3, <1>4, <1>6, <1>9, <1>8 DEF Alone

-----------------------------------------------------------------------------
(* What nobody was told of stays so. *)

LEMMA HandsOff ==
  ASSUME NEW id, Orphan(id), row'[id].outcome = row[id].outcome, row'[id].posted = row[id].posted,
         landed'[id] = landed[id],
         \A w \in Executors : id \notin queue'[w] /\ (run'[w] # None => run'[w].id # id)
  PROVE  Orphan(id)'
BY DEF Orphan, Acted

LEMMA OrphanStays ==
  ASSUME Careful, Typed, Alone, [Next]_vars, NEW id \in 1 .. last, Orphan(id)
  PROVE  Orphan(id)' \/ ((BeginRound \/ MarkTwin) /\ row'[id].outcome \notin Live)
<1>0. /\ id \in Ids /\ row \in [Ids -> Row] /\ row[id].outcome = "pending" /\ ~row[id].posted
      /\ queue \in [Executors -> SUBSET (1 .. last)]
      /\ \A w \in Executors : id \notin queue[w] /\ (run[w] # None => run[w].id # id)
      /\ Reachable \subseteq Ids \ {id}
  BY DecisionConstants DEF Typed, TypeOK, Ids, Orphan, Careful, Reachable
<1>1. landed'[id] = landed[id]
  BY <1>0, LandedGrows DEF Lands
<1>2. ASSUME NEW w \in Executors, run'[w] # None PROVE run'[w].id # id
  <2>1. CASE run'[w] = run[w]
    BY <1>0, <1>2, <2>1
  <2>2. CASE RunStep(w)
    <3>1. run'[w].id = run[w].id /\ run[w] # None
      BY <1>2, <2>2, RunStepFacts DEF Lands
    <3> QED BY <1>0, <3>1
  <2>3. ASSUME NEW i \in Ids, i \in queue[w], NEW p, Started(w, i, p) PROVE run'[w].id # id
    <3>1. run'[w] = [id |-> i, payload |-> p, call |-> 1, attempt |-> 0, sent |-> FALSE]
      BY <2>3 DEF Started, Typed, TypeOK
    <3> QED BY <1>0, <2>3, <3>1
  <2> QED BY <1>2, <2>1, <2>2, <2>3, RunOrigin DEF ExecuteNext, ApproveNext, Head
<1>3. CASE UNCHANGED <<row, queue>>
  BY <1>0, <1>1, <1>2, <1>3, HandsOff
<1>4. CASE BeginRound
  <2>1. UNCHANGED queue /\ row'[id] = IF Stale(id) THEN [row[id] EXCEPT !.outcome = "expired"] ELSE row[id]
    BY <1>0, <1>4 DEF BeginRound
  <2>2. CASE Stale(id)
    <3>1. row'[id].outcome = "expired"
      BY <1>0, <2>1, <2>2 DEF Row
    <3> QED BY <1>4, <3>1 DEF Live
  <2>3. CASE ~Stale(id)
    BY <1>0, <1>1, <1>2, <2>1, <2>3, HandsOff
  <2> QED BY <2>2, <2>3
<1>5. CASE MarkTwin
  <2>1. UNCHANGED queue /\ Settle(last, "skipped")
    BY <1>5 DEF MarkTwin
  <2>2. CASE last = id
    <3>1. row'[id].outcome = "skipped"
      BY <1>0, <2>1, <2>2, BecomesFacts DEF Becomes
    <3> QED BY <1>5, <3>1 DEF Live
  <2>3. CASE last # id
    <3>1. row'[id] = row[id]
      BY <1>0, <2>1, <2>3 DEF Settle
    <3> QED BY <1>0, <1>1, <1>2, <2>1, <3>1, HandsOff
  <2> QED BY <2>2, <2>3
<1>6. CASE RecordNext
  <2>1. row'[id] = row[id] /\ \A w \in Executors : id \notin queue'[w]
    <3>1. row'[id] = row[id] /\ id # last'
      BY <1>6, OneMore DEF Typed
    <3>2. \A w \in Executors : queue'[w] = queue[w] \/ queue'[w] = queue[w] \cup {last'}
      BY <1>6, OneMore DEF Typed
    <3> QED BY <1>0, <3>1, <3>2
  <2> QED BY <1>0, <1>1, <1>2, <2>1, HandsOff
<1>7. ASSUME NEW i \in Ids \ {id}, \A j \in Ids \ {i} : row'[j] = row[j],
             \A w \in Executors : queue'[w] \subseteq queue[w]
      PROVE  Orphan(id)'
  BY <1>0, <1>1, <1>2, <1>7, HandsOff
<1>8. ASSUME NEW i \in Ids, ExecuteNext(i) PROVE Orphan(id)'
  <2>1. i # id /\ \A w \in Executors : queue'[w] \subseteq queue[w]
    BY <1>0, <1>8, Executing DEF ExecuteNext, Head
  <2>2. \A j \in Ids \ {i} : row'[j] = row[j]
    BY <1>0, <1>8 DEF ExecuteNext, Carry, Settle
  <2> QED BY <1>7, <2>1, <2>2
<1>9. ASSUME NEW o \in Operators, NEW i \in Ids, ApproveNext(o, i) PROVE Orphan(id)'
  <2>1. i # id /\ \A w \in Executors : queue'[w] \subseteq queue[w]
    BY <1>0, <1>9, Executing DEF ApproveNext, Head
  <2>2. \A j \in Ids \ {i} : row'[j] = row[j]
    BY <1>0, <1>9 DEF ApproveNext, Carry
  <2> QED BY <1>7, <2>1, <2>2
<1>10. ASSUME NEW o \in Operators, NEW i \in Ids, Reject(o, i) PROVE Orphan(id)'
  <2>1. i # id /\ queue' = queue /\ \A j \in Ids \ {i} : row'[j] = row[j]
    BY <1>0, <1>10 DEF Reject, Settle
  <2> QED BY <1>7, <2>1
<1>11. ASSUME NEW o \in Operators, NEW i \in Ids, Request(o, i) PROVE Orphan(id)'
  <2>1. i # id /\ row' = row /\ queue' = [queue EXCEPT ![o] = {i}]
    BY <1>0, <1>11 DEF Request
  <2>2. \A w \in Executors : id \notin queue'[w]
    BY <1>0, <2>1
  <2> QED BY <1>0, <1>1, <1>2, <2>1, <2>2, HandsOff
<1>12. ASSUME NEW i \in Ids, Age(i) PROVE Orphan(id)'
  <2>1. row' = [row EXCEPT ![i] = [row[i] EXCEPT !.old = TRUE]] /\ queue' = queue
    BY <1>0, <1>12 DEF Age
  <2>2. row'[id].outcome = row[id].outcome /\ row'[id].posted = row[id].posted
    BY <1>0, <2>1 DEF Row
  <2> QED BY <1>0, <1>1, <1>2, <2>1, <2>2, HandsOff
<1>13. ASSUME NEW w \in Executors, RunStep(w) PROVE Orphan(id)'
  <2>1. run[w] # None /\ run[w].id \in Ids \ {id}
    BY <1>0, <1>13, RunStepFacts
  <2>2. queue' = queue /\ \A j \in Ids \ {run[w].id} : row'[j] = row[j]
    BY <1>0, <1>13 DEF RunStep, Lands, Answered, Retry, GiveUp, Settle
  <2> QED BY <1>7, <2>1, <2>2
<1>14. ASSUME NEW lost, Forget(lost) PROVE Orphan(id)'
  <2>1. row' = row /\ \A w \in Executors : queue'[w] \subseteq queue[w]
    BY <1>14 DEF Forget
  <2> QED BY <1>0, <1>1, <1>2, <2>1, HandsOff
<1>15. \A o \in Operators : ~RequestAll(o)
  BY DEF Careful, RequestAll
<1>16. \/ UNCHANGED <<row, queue>> \/ BeginRound \/ MarkTwin \/ RecordNext
       \/ \E i \in Ids : ExecuteNext(i) \/ Age(i)
       \/ \E w \in Executors : RunStep(w)
       \/ \E o \in Operators, i \in Ids : ApproveNext(o, i) \/ Reject(o, i) \/ Request(o, i)
       \/ \E lost : Forget(lost)
  BY <1>15 DEF Next, vars, BeginTick, NoDecision, BeginActing, EndTick, Reconfigure, MainDies, DirectorDies
<1> QED BY <1>3, <1>4, <1>5, <1>6, <1>8, <1>9, <1>10, <1>11, <1>12, <1>13, <1>14, <1>16

\* What was just recorded is unknown to all, if the tick did not queue it.
LEMMA NewOrphan ==
  ASSUME Typed, AllowedRuns, RecordNext, queue' = queue, NEW id, id = last'
  PROVE  Orphan(id)'
<1>0. /\ last \in Nat /\ id = last + 1 /\ id \in Ids /\ UNCHANGED <<run, landed>>
      /\ row'[id].outcome = "pending" /\ ~row'[id].posted
  BY OneMore, NewRowFields DEF Typed
<1>1. \A w \in Executors : id \notin queue[w] /\ (run[w] # None => run[w].id # id)
  BY <1>0, DecisionConstants DEF Typed, TypeOK, RunFits, Run, Ids
<1>2. ~Acted(id)
  BY <1>0 DEF AllowedRuns
<1> QED BY <1>0, <1>1, <1>2 DEF Orphan, Acted

LEMMA TwinAloneStep == Careful /\ Settled /\ [Next]_vars => TwinAlone'
<1> SUFFICES ASSUME Careful, Typed, AllowedRuns, Alone, TwinAlone, [Next]_vars, phase' = "marking",
                    NEW id, id = last'
             PROVE  id > 0 /\ Orphan(id)'
  BY DEF Settled, TwinAlone, Orphan, Acted
<1>1. CASE RecordNext
  <2>1. queue' = queue /\ id > 0
    BY <1>1, OneMore DEF Typed
  <2> QED BY <1>1, <2>1, NewOrphan
<1>2. CASE ~RecordNext
  <2>1. phase = "marking" /\ id = last /\ ~BeginRound /\ ~MarkTwin
    BY <1>2, ZenonT(30) DEF Next, vars, BeginRound, BeginTick, NoDecision, MarkTwin, BeginActing, EndTick,
       ExecuteNext, Age,
              RunStep, Lands, Answered, Retry, GiveUp, RequestAll, Request, ApproveNext, Reject, Reconfigure, MainDies,
              DirectorDies, Forget
  <2>2. id > 0 /\ Orphan(id) /\ id \in 1 .. last
    BY <2>1, DecisionConstants DEF TwinAlone, Typed, TypeOK
  <2> QED BY <2>1, <2>2, OrphanStays
<1> QED BY <1>1, <1>2

-----------------------------------------------------------------------------

LEMMA InitSettled == Init => Settled
<1> SUFFICES ASSUME Init PROVE Settled
  OBVIOUS
<1>1. Typed /\ AllowedRuns
  BY InitTyped, InitLanded
<1>2. 1 .. last = {} /\ \A w \in Executors : queue[w] = {} /\ run[w] = None
  BY DEF Init
<1>3. TwinAlone
  BY DEF Init, TwinAlone
<1> QED BY <1>1, <1>2, <1>3, Executing DEF Settled, Alone, TickAlone, OperatorAlone, FirstTime, DidIt, PendingUntouched, ExpiredOld, Idle

LEMMA SettledStep == Careful /\ Settled /\ [Next]_vars => Settled'
<1> SUFFICES ASSUME Careful, Settled, Typed, AllowedRuns, Alone, TwinAlone, [Next]_vars PROVE Alone'
  BY TypedStep, AllowedRunsStep, TwinAloneStep DEF Settled
<1>1. CASE BeginTick \/ NoDecision \/ BeginActing \/ EndTick \/ Reconfigure \/ UNCHANGED vars
  <2>1. UNCHANGED <<row, last, run, queue, landed, did>> /\ (phase' \in {phase, "acting"} \/ Idle(Director))
    BY <1>1 DEF BeginTick, NoDecision, BeginActing, EndTick, Reconfigure, vars, Alone, TickAlone, Idle
  <2> QED BY <2>1, NothingDone
<1>2. ~MainDies /\ \A o \in Operators : ~RequestAll(o)
  BY DEF Careful, MainDies, RequestAll
<1> QED BY <1>1, <1>2, DirectorDiesAlone, BeginRoundAlone, RecordNextAlone, MarkTwinAlone, ExecuteAlone, AgeAlone, RunStepAlone,
           ApproveAlone, RequestAlone DEF Next

-----------------------------------------------------------------------------
(* The properties. *)

\* What a statement does to the row it is about, when that row was pending or expired.
LEMMA BecomesMoves ==
  ASSUME Typed, NEW i \in Ids, NEW o, NEW p, NEW q, Becomes(i, o, p, q),
         row[i].outcome \in {"pending", "expired"} \/ o = row[i].outcome,
         p = row[i].payload \/ (row[i].outcome = "pending" /\ ~AtWork(i))
  PROVE  \A id \in Ids : /\ row[id].old => row'[id].old
                         /\ row'[id].outcome # row[id].outcome => row[id].outcome \in {"pending", "expired"}
                         /\ row'[id].payload # row[id].payload => row[id].outcome = "pending" /\ ~AtWork(id)
BY DEF Becomes

\* Only what is pending or expired gets another outcome, and only what is pending and not being carried
\* out another payload; and nothing gets younger.
LEMMA RowMoves ==
  ASSUME Typed, Alone, TwinAlone, Careful, [Next]_vars, ~RecordNext, NEW id \in Ids
  PROVE  /\ row[id].old => row'[id].old
         /\ row'[id].outcome # row[id].outcome => row[id].outcome \in {"pending", "expired"}
         /\ row'[id].payload # row[id].payload => row[id].outcome = "pending" /\ ~AtWork(id)
<1>0. row \in [Ids -> Row]
  BY DEF Typed, TypeOK
<1>1. CASE row' = row
  BY <1>1
<1>2. CASE BeginRound
  <2>1. row'[id] = IF Stale(id) THEN [row[id] EXCEPT !.outcome = "expired"] ELSE row[id]
    BY <1>2 DEF BeginRound
  <2> QED BY <1>0, <2>1 DEF Stale, Row
<1>3. ASSUME NEW i \in Ids, Age(i)
      PROVE  /\ row[id].old => row'[id].old
             /\ row'[id].outcome = row[id].outcome
             /\ row'[id].payload = row[id].payload
  <2> DEFINE r == [row[i] EXCEPT !.old = TRUE]
  <2>1. row' = [row EXCEPT ![i] = r]
    BY <1>0, <1>3 DEF Age
  <2>2. r.outcome = row[i].outcome /\ r.payload = row[i].payload /\ r.old
    BY <1>0 DEF Row
  <2> HIDE DEF r
  <2> QED BY <1>0, <2>1, <2>2
<1>4. ASSUME NEW i \in Ids, ExecuteNext(i)
      PROVE  \E o, q : Becomes(i, o, row[i].payload, q) /\ row[i].outcome = "pending"
  <2>1. i \in queue[Director] /\ i \in 1 .. last
    BY <1>4, QueuedIds, Executing DEF ExecuteNext, Head, Typed
  <2>2. row[i].outcome = "pending" /\ row[i].payload = row[i].draft /\ row[i].payload \in Payloads
    BY <2>1 DEF Alone, TickAlone, Typed, TypeOK
  <2>3. \/ \E o \in {"dry_run", "skipped"} : Settle(i, o)
        \/ row' = [row EXCEPT ![i].outcome = "pending", ![i].posted = TRUE]
        \/ Carry(Director, i, row[i].payload)
    BY <1>4, <2>2 DEF ExecuteNext
  <2>4. ASSUME Carry(Director, i, row[i].payload) PROVE \E o, q : Becomes(i, o, row[i].payload, q)
    <3>1. Stored(Director, i, row[i].payload) = row[i].payload
      BY DEF Stored
    <3> QED BY <2>1, <2>2, <2>4, <3>1, CarryFacts, Executing
  <2> QED BY <2>2, <2>3, <2>4, BecomesFacts
<1>5. ASSUME NEW w \in Executors, RunStep(w), row' # row
      PROVE  \E o : /\ Becomes(run[w].id, o, row[run[w].id].payload, row[run[w].id].posted)
                    /\ run[w].id \in Ids /\ row[run[w].id].outcome \in {"pending", "expired"}
  <2>1. /\ run[w] # None /\ run[w].id \in Ids
        /\ \E o : Becomes(run[w].id, o, row[run[w].id].payload, row[run[w].id].posted)
    BY <1>5, RunStepFacts DEF Lands
  <2>2. row[run[w].id].outcome \in {"pending", "expired"}
    BY <2>1 DEF Alone, TickAlone, OperatorAlone, Executors
  <2> QED BY <2>1, <2>2
<1>6. ASSUME NEW o \in Operators, NEW i \in Ids, ApproveNext(o, i), row' # row
      PROVE  \E x, p, q : Becomes(i, x, p, q) /\ row[i].outcome = "pending" /\ ~AtWork(i)
  <2>1. o \in Executors /\ i \in queue[o] /\ run[o] = None /\ i \in 1 .. last
    BY <1>6, QueuedIds, Executing DEF ApproveNext, Head, Typed
  <2>2. ~AtWork(i) /\ Asked(o, i) \in Payloads
    BY <2>1, Apart DEF Asked, Typed, TypeOK
  <2>3. /\ row[i].outcome = "pending"
        /\ \/ row' = [row EXCEPT ![i].payload = Asked(o, i), ![i].outcome = "skipped"]
           \/ Carry(o, i, Asked(o, i))
    BY <1>6 DEF ApproveNext, Asked
  <2>4. ASSUME Carry(o, i, Asked(o, i)) PROVE \E x, p, q : Becomes(i, x, p, q)
    BY <2>1, <2>2, <2>4, CarryFacts
  <2>5. ASSUME row' = [row EXCEPT ![i].payload = Asked(o, i), ![i].outcome = "skipped"]
        PROVE  \E x, p, q : Becomes(i, x, p, q)
    <3>1. Becomes(i, "skipped", Asked(o, i), row[i].posted)
      BY <2>5, BecomesFacts
    <3> QED BY <3>1
  <2> QED BY <2>2, <2>3, <2>4, <2>5
<1>7. ASSUME NEW o \in Operators, NEW i \in Ids, Reject(o, i)
      PROVE  Becomes(i, "rejected", row[i].payload, row[i].posted) /\ row[i].outcome = "pending"
  BY <1>7, BecomesFacts DEF Reject, Reachable
<1>8. \/ row' = row
      \/ BeginRound \/ MarkTwin
      \/ \E i \in Ids : ExecuteNext(i) \/ Age(i)
      \/ \E w \in Executors : RunStep(w)
      \/ \E o \in Operators : \E i \in Ids : ApproveNext(o, i) \/ Reject(o, i)
  BY DEF Next, vars, BeginTick, NoDecision, BeginActing, EndTick, RequestAll, Request, Reconfigure,
     MainDies, DirectorDies, Forget
<1>9. ASSUME NEW i \in Ids, ExecuteNext(i) \/ \E o \in Operators : ApproveNext(o, i) \/ Reject(o, i), row' # row
      PROVE  /\ row[id].old => row'[id].old
             /\ row'[id].outcome # row[id].outcome => row[id].outcome \in {"pending", "expired"}
             /\ row'[id].payload # row[id].payload => row[id].outcome = "pending" /\ ~AtWork(id)
  <2>1. \E o, p, q : /\ Becomes(i, o, p, q) /\ row[i].outcome = "pending"
                     /\ p = row[i].payload \/ ~AtWork(i)
    BY <1>4, <1>6, <1>7, <1>9
  <2> QED BY <2>1, BecomesMoves
<1>10. ASSUME NEW w \in Executors, RunStep(w), row' # row
       PROVE  /\ row[id].old => row'[id].old
              /\ row'[id].outcome # row[id].outcome => row[id].outcome \in {"pending", "expired"}
              /\ row'[id].payload # row[id].payload => row[id].outcome = "pending" /\ ~AtWork(id)
  BY <1>5, <1>10, BecomesMoves
<1>11. CASE MarkTwin
  <2>1. last \in Ids /\ row[last].outcome = "pending"
    BY <1>11, DecisionConstants DEF MarkTwin, TwinAlone, Orphan, Typed, TypeOK, Ids
  <2>2. Becomes(last, "skipped", row[last].payload, row[last].posted)
    BY <1>11, <2>1, BecomesFacts DEF MarkTwin
  <2> QED BY <2>1, <2>2, BecomesMoves
<1> QED BY <1>1, <1>2, <1>3, <1>8, <1>9, <1>10, <1>11

LEMMA RunsOnceStep == Careful /\ Settled /\ RunsOnce /\ [Next]_vars => RunsOnce'
<1> SUFFICES ASSUME Careful, Typed, Alone, RunsOnce, [Next]_vars, NEW i \in Ids, NEW k \in 1 .. 2
             PROVE  landed'[i][k] <= 1
  BY DEF Settled, RunsOnce
<1>1. CASE landed' = landed
  BY <1>1 DEF RunsOnce
<1>2. ASSUME NEW w \in Executors, Lands(w) PROVE landed'[i][k] <= 1
  <2>1. run[w] # None /\ ~run[w].sent /\ run[w] \in Run
    BY <1>2 DEF Lands, Typed, TypeOK
  <2>2. landed[run[w].id][run[w].call] = 0
    BY <2>1 DEF Alone, FirstTime, Run
  <2>3. CASE i = run[w].id /\ k = run[w].call
    BY <1>2, <2>2, <2>3, LandsAdds
  <2>4. CASE ~(i = run[w].id /\ k = run[w].call)
    BY <1>2, <2>4, LandsAdds DEF RunsOnce
  <2> QED BY <2>3, <2>4
<1> QED BY <1>1, <1>2, LandedGrows

\* RunsOnce: no call of a decision is done twice by the forge.
THEOREM ForgeCalledOnce == Careful => (Spec => []RunsOnce)
<1>1. Init => RunsOnce
  BY DEF Init, RunsOnce
<1>2. ASSUME Careful PROVE Settled /\ RunsOnce /\ [Next]_vars => (Settled /\ RunsOnce)'
  BY <1>2, SettledStep, RunsOnceStep
<1>3. ASSUME Careful PROVE Spec => []RunsOnce
  BY <1>1, <1>2, <1>3, InitSettled, PTL DEF Spec
<1> QED BY <1>3

LEMMA AuditTrailStep == Careful /\ Settled /\ AuditTrail /\ [Next]_vars => AuditTrail'
<1> SUFFICES ASSUME Careful, Typed, Alone, TwinAlone, AuditTrail, [Next]_vars, NEW id \in 1 .. last',
                    row'[id].outcome = "executed", Calls(TypeOf[row'[id].draft]) > 0, ~AtWork(id)'
             PROVE  row'[id].payload \in did'[id]
  BY DEF AuditTrail, Settled, AtWork
<1>1. did[id] \subseteq did'[id] \/ id \notin Ids
  <2>1. did' = did \/ \E w \in Executors : Lands(w)
    BY ZenonT(30) DEF Next, vars, BeginRound, BeginTick, NoDecision, RecordNext, MarkTwin, BeginActing,
       EndTick, ExecuteNext, Age, RunStep, Answered, Retry,
           GiveUp, RequestAll, Request, ApproveNext, Reject, Reconfigure, MainDies, DirectorDies, Forget
  <2> QED BY <2>1, LandsAdds
<1>2. CASE RecordNext
  <2>1. id \in 1 .. last
    BY <1>2, DraftsKept
  <2>2. row'[id] = row[id] /\ UNCHANGED <<run, did>>
    BY <1>2, <2>1, OneMore DEF Typed
  <2> QED BY <2>1, <2>2 DEF AuditTrail, AtWork
<1>3. CASE ~RecordNext
  <2>1. id \in 1 .. last /\ id \in Ids /\ row'[id].draft = row[id].draft
    BY <1>3, DraftsKept
  <2>2. CASE row[id].outcome = "executed"
    <3>1. row'[id].payload = row[id].payload
      BY <1>3, <2>1, <2>2, RowMoves
    <3>2. ~AtWork(id)
      BY <2>2 DEF AtWork, Alone, TickAlone, OperatorAlone, Executors
    <3>3. row[id].payload \in did[id]
      BY <2>1, <2>2, <3>2 DEF AuditTrail, AtWork
    <3> QED BY <1>1, <2>1, <3>1, <3>3
  <2>3. CASE row[id].outcome # "executed"
    <3>1. PICK w \in Executors : run[w] # None /\ run[w].id = id /\ run[w].sent
      BY <1>3, <2>1, <2>3, BecomesExecuted
    <3>2. row[id].payload = run[w].payload /\ run[w].payload \in did[id]
      BY <3>1 DEF Alone, TickAlone, OperatorAlone, DidIt, Executors
    <3>3. row'[id].payload = row[id].payload
      BY <1>3, <2>1, <3>1, RowMoves DEF AtWork
    <3> QED BY <1>1, <2>1, <3>2, <3>3
  <2> QED BY <2>2, <2>3
<1> QED BY <1>2, <1>3

\* AuditTrail: what an executed row says was executed was executed.
THEOREM AuditTrailHolds == Careful => (Spec => []AuditTrail)
<1>1. Init => AuditTrail
  BY DEF Init, AuditTrail
<1>2. ASSUME Careful PROVE Settled /\ AuditTrail /\ [Next]_vars => (Settled /\ AuditTrail)'
  BY <1>2, SettledStep, AuditTrailStep
<1>3. ASSUME Careful PROVE Spec => []AuditTrail
  BY <1>1, <1>2, <1>3, InitSettled, PTL DEF Spec
<1> QED BY <1>3

LEMMA OneLiveStep == Careful /\ Settled /\ OneLive /\ [Next]_vars => OneLive'
<1> SUFFICES ASSUME Careful, Typed, AllowedRuns, Alone, TwinAlone, OneLive, [Next]_vars,
                    NEW i \in 1 .. last', NEW j \in 1 .. last', i < j,
                    {row'[i].outcome, row'[j].outcome} \subseteq Live, ~row'[i].old, ~row'[j].old,
                    KeyOf[row'[i].draft] = KeyOf[row'[j].draft], KeyOf[row'[i].draft] # None
             PROVE  Orphan(j)'
  BY DEF OneLive, Settled
<1>1. ASSUME i \in 1 .. last, j \in 1 .. last, Orphan(j) PROVE Orphan(j)'
  BY <1>1, OrphanStays
<1>2. CASE ~RecordNext
  <2>1. \A id \in 1 .. last' : id \in 1 .. last /\ id \in Ids /\ row'[id].draft = row[id].draft
    BY <1>2, DraftsKept
  <2>2. ASSUME NEW id \in 1 .. last', row'[id].outcome \in Live, ~row'[id].old
        PROVE  row[id].outcome \in Live /\ ~row[id].old
    <3>1. ~row[id].old /\ (row'[id].outcome # row[id].outcome => row[id].outcome \in {"pending", "expired"})
      BY <1>2, <2>1, <2>2, RowMoves
    <3>2. row[id].outcome # "expired"
      BY <2>1, <3>1 DEF Alone, ExpiredOld
    <3> QED BY <2>2, <3>1, <3>2 DEF Live
  <2>3. Orphan(j)
    BY <2>1, <2>2 DEF OneLive
  <2> QED BY <1>1, <2>1, <2>3
<1>3. CASE RecordNext
  <2>1. /\ last \in Nat /\ last' = last + 1
        /\ \A id \in 1 .. last : row'[id] = row[id]
        /\ \A id \in 1 .. last' : id \in 1 .. last \/ id = last'
    BY <1>3, OneMore DEF Typed
  <2>2. i \in 1 .. last
    BY <2>1
  <2>3. CASE j \in 1 .. last
    <3>1. Orphan(j)
      BY <2>1, <2>2, <2>3 DEF OneLive
    <3> QED BY <1>1, <2>2, <2>3, <3>1
  <2>4. CASE j = last'
    <3>1. PICK p \in Payloads : /\ row'[last'] = NewRow(p)
                                /\ ~Duplicate(p) \/ queue' = queue
      BY <1>3, OneMore DEF Typed
    <3>2. Duplicate(p)
      <4>1. row'[j].draft = p
        BY <2>4, <3>1, NewRowFields
      <4> QED BY <2>1, <2>2, <4>1 DEF Duplicate
    <3>3. queue' = queue
      BY <3>1, <3>2
    <3> QED BY <1>3, <2>4, <3>3, NewOrphan
  <2> QED BY <2>1, <2>3, <2>4
<1> QED BY <1>2, <1>3

\* OneLive: what is pending or executed is not proposed again within seven days; a second row of it that the
\* director had no time to mark waits unseen, and is never done.
THEOREM NoTwins == Careful => (Spec => []OneLive)
<1>1. Init => OneLive
  BY DEF Init, OneLive
<1>2. ASSUME Careful PROVE Settled /\ OneLive /\ [Next]_vars => (Settled /\ OneLive)'
  BY <1>2, SettledStep, OneLiveStep
<1>3. ASSUME Careful PROVE Spec => []OneLive
  BY <1>1, <1>2, <1>3, InitSettled, PTL DEF Spec
<1> QED BY <1>3

-----------------------------------------------------------------------------
(* The steps of the table are steps of DecisionLife. *)

\* What every step may rely on.
Lived == Settled /\ LandedSoFar /\ RunsOnce

\* How much the forge has done for a decision that is being carried out, and for one that it has not seen.
LEMMA DoneSoFar ==
  ASSUME Lived
  PROVE  /\ \A w \in Executors : run[w] # None =>
              DoneFor[run[w].id] = IF run[w].sent THEN run[w].call ELSE run[w].call - 1
         /\ \A id \in Ids : ~Acted(id) => DoneFor[id] = 0
<1>0. landed \in [Ids -> [1 .. 2 -> 0 .. 2]] /\ \A w \in Executors : run[w] # None => run[w] \in Run
  BY DEF Lived, Settled, Typed, TypeOK
<1>1. ASSUME NEW w \in Executors, run[w] # None
      PROVE  DoneFor[run[w].id] = IF run[w].sent THEN run[w].call ELSE run[w].call - 1
  <2> DEFINE i == run[w].id
             k == run[w].call
  <2>1. i \in Ids /\ k \in 1 .. 2
    BY <1>0, <1>1 DEF Run
  <2>2. landed[i][1] \in 0 .. 1 /\ landed[i][2] \in 0 .. 1
    BY <1>0, <2>1 DEF Lived, RunsOnce
  <2>3. \A m \in 1 .. 2 : /\ m < k \/ (m = k /\ run[w].sent) => landed[i][m] > 0
                          /\ m > k \/ (m = k /\ ~run[w].sent) => landed[i][m] = 0
    BY <1>1 DEF Lived, LandedSoFar, Settled, Alone, FirstTime
  <2>4. DoneFor[i] = landed[i][1] + landed[i][2]
    BY <2>1 DEF DoneFor
  <2> HIDE DEF i, k
  <2>5. DoneFor[i] = IF run[w].sent THEN k ELSE k - 1
    BY <2>1, <2>2, <2>3, <2>4
  <2> QED BY <2>5 DEF i, k
<1>2. ASSUME NEW id \in Ids, ~Acted(id) PROVE DoneFor[id] = 0
  BY <1>0, <1>2 DEF Acted, DoneFor
<1> QED BY <1>1, <1>2

\* The abstract state after a step that changes one row.
LEMMA LifeBecomes ==
  ASSUME Typed, NEW i \in 1 .. last, NEW o, NEW p, NEW q, Becomes(i, o, p, q), UNCHANGED <<last, landed>>
  PROVE  Life!Becoming(i, o)
<1>0. i \in Ids
  BY DecisionConstants DEF Typed, TypeOK, Ids
<1>1. \A j \in Ids : row'[j].outcome = (IF j = i THEN o ELSE row[j].outcome) /\ row'[j].draft = row[j].draft
  BY <1>0 DEF Becomes
<1>2. OutcomeOf' = [OutcomeOf EXCEPT ![i] = o]
  BY <1>0, <1>1 DEF OutcomeOf
<1>3. CallsOf' = CallsOf
  BY <1>1 DEF CallsOf
<1>4. DoneFor' = DoneFor
  BY DEF DoneFor
<1> QED BY <1>2, <1>3, <1>4 DEF Life!Becoming

\* A decision taken up is refused, done at once, or left as it is.
LEMMA LifeTaken ==
  ASSUME Lived, NEW i \in 1 .. last, NEW o, NEW p, NEW q, Becomes(i, o, p, q), UNCHANGED <<last, landed>>,
         row[i].outcome = "pending", ~Acted(i),
         o \in {"pending", "rejected", "skipped", "dry_run", "failed"}
           \/ (o = "executed" /\ Calls(TypeOf[row[i].draft]) = 0)
  PROVE  [Life!Next]_Life!lifeVars
<1>0. i \in Ids /\ i <= last
  BY DecisionConstants DEF Lived, Settled, Typed, TypeOK, Ids
<1>1. Life!Becoming(i, o)
  BY LifeBecomes DEF Lived, Settled
<1>2. OutcomeOf[i] = "pending" /\ DoneFor[i] = 0 /\ CallsOf[i] = Calls(TypeOf[row[i].draft])
  BY <1>0, DoneSoFar DEF OutcomeOf, CallsOf
<1>3. CASE o = "pending"
  <2>1. OutcomeOf' = OutcomeOf
    BY <1>1, <1>2, <1>3 DEF Life!Becoming, OutcomeOf
  <2> QED BY <1>1, <2>1 DEF Life!Becoming, Life!lifeVars
<1>4. CASE o \in {"rejected", "skipped", "dry_run"}
  BY <1>0, <1>1, <1>2, <1>4 DEF Life!Next, Life!Refuse
<1>5. CASE o = "failed"
  BY <1>0, <1>1, <1>2, <1>5 DEF Life!Next, Life!Fail, Life!Open
<1>6. CASE o = "executed"
  BY <1>0, <1>1, <1>2, <1>6 DEF Life!Next, Life!Execute, Life!Open
<1> QED BY <1>3, <1>4, <1>5, <1>6

LEMMA LifeExecute ==
  ASSUME Lived, Careful, NEW i \in Ids, ExecuteNext(i)
  PROVE  [Life!Next]_Life!lifeVars
<1>0. /\ i \in queue[Director] /\ i \in 1 .. last /\ Typed /\ Alone
      /\ row[i].outcome = "pending" /\ row[i].payload = row[i].draft /\ row[i].draft \in Payloads
      /\ UNCHANGED <<last, landed>>
  <2>1. i \in queue[Director] /\ i \in 1 .. last
    BY QueuedIds, Executing DEF ExecuteNext, Head, Lived, Settled, Typed
  <2>2. UNCHANGED <<last, landed>>
    BY DEF ExecuteNext
  <2> QED BY <2>1, <2>2 DEF Lived, Settled, Alone, TickAlone, Typed, TypeOK
<1>1. ~Acted(i)
  BY <1>0, Apart DEF Alone, PendingUntouched
<1>2. \/ \E o \in {"dry_run", "skipped"} : Settle(i, o)
      \/ row' = [row EXCEPT ![i].outcome = "pending", ![i].posted = TRUE]
      \/ Carry(Director, i, row[i].draft)
  BY DEF ExecuteNext
<1>3. CASE \E o \in {"dry_run", "skipped"} : Settle(i, o)
  <2>1. PICK o \in {"dry_run", "skipped"} : Becomes(i, o, row[i].payload, row[i].posted)
    BY <1>0, <1>3, BecomesFacts
  <2> QED BY <1>0, <1>1, <2>1, LifeTaken
<1>4. CASE row' = [row EXCEPT ![i].outcome = "pending", ![i].posted = TRUE]
  <2>1. Becomes(i, "pending", row[i].payload, TRUE)
    BY <1>0, <1>4, BecomesFacts
  <2> QED BY <1>0, <1>1, <2>1, LifeTaken
<1>5. CASE Carry(Director, i, row[i].draft)
  <2>1. PICK o, p, q : /\ Becomes(i, o, p, q)
                       /\ o \in {"pending", "failed"} \/ (o = "executed" /\ Calls(TypeOf[row[i].draft]) = 0)
    BY <1>0, <1>5, CarryFacts, Executing
  <2> QED BY <1>0, <1>1, <2>1, LifeTaken
<1> QED BY <1>2, <1>3, <1>4, <1>5

LEMMA LifeApprove ==
  ASSUME Lived, Careful, NEW o \in Operators, NEW i \in Ids, ApproveNext(o, i)
  PROVE  [Life!Next]_Life!lifeVars
<1> DEFINE p == Asked(o, i)
<1>0. /\ o \in Executors /\ i \in queue[o] /\ i \in 1 .. last /\ Typed /\ Alone /\ row[i].posted
      /\ p \in Payloads /\ TypeOf[p] = TypeOf[row[i].draft] /\ ~AtWork(i)
      /\ UNCHANGED <<last, landed>>
  <2>1. o \in Executors /\ i \in queue[o] /\ run[o] = None /\ Typed /\ Alone
    BY Executing DEF ApproveNext, Head, Lived, Settled
  <2>2. i \in 1 .. last
    BY <2>1, QueuedIds DEF Typed
  <2>3. ~AtWork(i) /\ row[i].posted
    BY <2>1, Apart DEF Alone, OperatorAlone
  <2>4. p \in Payloads /\ TypeOf[p] = TypeOf[row[i].draft]
    BY <2>1, <2>2 DEF Asked, Typed, TypeOK, EditFits
  <2>5. UNCHANGED <<last, landed>>
    BY DEF ApproveNext
  <2> QED BY <2>1, <2>2, <2>3, <2>4, <2>5
<1>1. \/ row' = row
      \/ /\ row[i].outcome = "pending"
         /\ \/ row' = [row EXCEPT ![i].payload = p, ![i].outcome = "skipped"]
            \/ Carry(o, i, p)
  BY DEF ApproveNext, Asked
<1> HIDE DEF p
<1>2. CASE row' = row
  BY <1>0, <1>2 DEF Life!lifeVars, OutcomeOf, CallsOf, DoneFor
<1>3. CASE row[i].outcome = "pending" /\ row' # row
  <2>1. ~Acted(i)
    BY <1>0, <1>3 DEF Alone, PendingUntouched
  <2>2. CASE row' = [row EXCEPT ![i].payload = p, ![i].outcome = "skipped"]
    <3>1. Becomes(i, "skipped", p, row[i].posted)
      BY <1>0, <2>2, BecomesFacts
    <3> QED BY <1>0, <1>3, <2>1, <3>1, LifeTaken
  <2>3. CASE Carry(o, i, p)
    <3>1. PICK x, r, q : /\ Becomes(i, x, r, q)
                         /\ x \in {"pending", "failed"} \/ (x = "executed" /\ Calls(TypeOf[row[i].draft]) = 0)
      BY <1>0, <1>3, <2>3, CarryFacts
    <3> QED BY <1>0, <1>3, <2>1, <3>1, LifeTaken
  <2> QED BY <1>1, <1>3, <2>2, <2>3
<1> QED BY <1>1, <1>2, <1>3

LEMMA LifeReject ==
  ASSUME Lived, Careful, NEW o \in Operators, NEW i \in Ids, Reject(o, i)
  PROVE  [Life!Next]_Life!lifeVars
<1>0. row[i].outcome = "pending" /\ row[i].posted /\ i \in 1 .. last /\ run[o] = None /\ Typed /\ Alone
  BY DecisionConstants DEF Reject, Idle, Reachable, Careful, Lived, Settled, Typed, TypeOK, Ids
<1>1. ~AtWork(i)
  <2>1. \A w \in Executors : w = o \/ w = Director
    BY DEF Careful, Executors
  <2> QED BY <1>0, <2>1 DEF AtWork, Alone, TickAlone
<1>2. ~Acted(i)
  BY <1>0, <1>1 DEF Alone, PendingUntouched
<1>3. Becomes(i, "rejected", row[i].payload, row[i].posted) /\ UNCHANGED <<last, landed>>
  BY <1>0, BecomesFacts DEF Reject
<1> QED BY <1>0, <1>2, <1>3, LifeTaken

\* An execution goes on: the forge does the call it is at, or it ends.
LEMMA LifeRun ==
  ASSUME Lived, Careful, NEW w \in Executors, RunStep(w)
  PROVE  [Life!Next]_Life!lifeVars
<1> DEFINE i == run[w].id
<1>0. /\ Typed /\ Alone /\ run[w] \in Run /\ run[w] # None /\ i \in 1 .. last /\ i \in Ids
      /\ UNCHANGED last
  <2>1. Typed /\ Alone /\ UNCHANGED last
    BY DEF Lived, Settled, RunStep, Lands, Answered, Retry, GiveUp
  <2> QED BY <2>1, RunStepFacts
<1>1. /\ OutcomeOf[i] \in {"pending", "expired"}
      /\ CallsOf[i] = Calls(TypeOf[run[w].payload])
      /\ run[w].call <= CallsOf[i] /\ CallsOf[i] \in 0 .. 2
  <2>1. row[i].outcome \in {"pending", "expired"}
    BY <1>0 DEF Alone, TickAlone, OperatorAlone, Executors
  <2>2. i <= last /\ TypeOf[run[w].payload] = TypeOf[row[i].draft] /\ run[w].call <= Calls(TypeOf[run[w].payload])
        /\ TypeOf[run[w].payload] \in Types
    BY <1>0, DecisionConstants DEF Typed, RunFits, Run
  <2> QED BY <1>0, <2>1, <2>2, CallsBound DEF OutcomeOf, CallsOf
<1>2. CASE Lands(w)
  <2>1. DoneFor[i] = run[w].call - 1 /\ UNCHANGED row /\ ~run[w].sent
    BY <1>0, <1>2, DoneSoFar DEF Lands
  <2>2. \A j \in Ids : DoneFor'[j] = IF j = i THEN DoneFor[j] + 1 ELSE DoneFor[j]
    <3>1. landed[i][run[w].call] = 0
      BY <1>0, <2>1 DEF Alone, FirstTime, Run
    <3>2. \A j \in Ids, k \in 1 .. 2 :
            landed'[j][k] = IF j = i /\ k = run[w].call THEN landed[j][k] + 1 ELSE landed[j][k]
      BY <1>0, <1>2, <3>1, LandsAdds
    <3>3. landed \in [Ids -> [1 .. 2 -> 0 .. 2]] /\ run[w].call \in 1 .. 2
      BY <1>0 DEF Typed, TypeOK, Run
    <3> HIDE DEF i
    <3> QED BY <3>2, <3>3 DEF DoneFor
  <2>3. DoneFor' = [DoneFor EXCEPT ![i] = @ + 1] /\ UNCHANGED <<OutcomeOf, CallsOf>>
    <3> HIDE DEF i
    <3>1. DoneFor' = [DoneFor EXCEPT ![i] = @ + 1]
      BY <2>2 DEF DoneFor
    <3>2. UNCHANGED <<OutcomeOf, CallsOf>>
      BY <1>0, <2>1 DEF OutcomeOf, CallsOf
    <3> QED BY <3>1, <3>2
  <2>4. DoneFor[i] < CallsOf[i]
    BY <1>0, <1>1, <2>1 DEF Run
  <2> QED BY <1>0, <1>1, <2>3, <2>4 DEF Life!Next, Life!Call, Life!Open
<1>3. CASE UNCHANGED <<row, landed>>
  BY <1>0, <1>3 DEF Life!lifeVars, OutcomeOf, CallsOf, DoneFor
<1>4. CASE ~Lands(w) /\ run'[w] = None
  <2>1. PICK o \in {"executed", "failed"} : Becomes(i, o, row[i].payload, row[i].posted)
    BY <1>0, <1>4, RunStepFacts
  <2>2. UNCHANGED <<last, landed>>
    BY <1>0, <1>4, RunStepFacts
  <2>3. Life!Becoming(i, o)
    BY <1>0, <2>1, <2>2, LifeBecomes
  <2>4. CASE o = "failed"
    BY <1>0, <1>1, <2>3, <2>4 DEF Life!Next, Life!Fail, Life!Open
  <2>5. CASE o = "executed"
    <3>1. row'[i].outcome = "executed" /\ row[i].outcome # "executed"
      BY <1>0, <1>1, <2>1, <2>5 DEF Becomes, OutcomeOf
    <3>2. Answered(w) /\ run[w].sent /\ ~(run[w].call < Calls(TypeOf[run[w].payload]))
      <4>1. ~GiveUp(w)
        <5>1. GiveUp(w) => row'[i].outcome = "failed"
          BY <1>0, BecomesFacts DEF GiveUp, Becomes
        <5> QED BY <3>1, <5>1
      <4>2. ~Retry(w)
        BY <3>1 DEF Retry
      <4> QED BY <1>4, <3>1, <4>1, <4>2 DEF RunStep, Answered
    <3>3. DoneFor[i] = CallsOf[i]
      BY <1>0, <1>1, <3>2, DoneSoFar DEF Run
    <3> QED BY <1>0, <1>1, <2>3, <2>5, <3>3 DEF Life!Next, Life!Execute, Life!Open
  <2> QED BY <2>1, <2>4, <2>5
<1> QED BY <1>0, <1>2, <1>3, <1>4, RunStepFacts

\* The tick's new row.
LEMMA LifeRecord ==
  ASSUME Lived, RecordNext
  PROVE  [Life!Next]_Life!lifeVars
<1> DEFINE new  == [id \in Ids |-> IF id = last' THEN "pending" ELSE "absent"]
           take == [id \in Ids |-> IF id = last' THEN Calls(TypeOf[row'[id].draft]) ELSE 0]
<1>0. /\ Typed /\ last \in Nat /\ last' = last + 1 /\ last' \in Ids /\ UNCHANGED landed
      /\ \A id \in Ids \ {last'} : row'[id] = row[id] /\ (id > last' <=> id > last)
      /\ row'[last'].outcome = "pending" /\ row'[last'].draft \in Payloads
      /\ \A id \in Ids : id \in Nat
  <2>1. TypeOK /\ Typed /\ \A id \in Ids : id \in Nat
    BY DecisionConstants DEF Lived, Settled, Typed, Ids
  <2> QED BY <2>1, OneMore, NewRowFields
<1>1. \A id \in Ids : OutcomeOf[id] = "absent" <=> id > last
  BY <1>0 DEF OutcomeOf, Typed, TypeOK
<1>2. new \in [Ids -> {"absent", "pending"}] /\ take \in [Ids -> 0 .. 2]
  <2>1. Calls(TypeOf[row'[last'].draft]) \in 0 .. 2
    BY <1>0, CallsBound, DecisionConstants
  <2> QED BY <2>1
<1>3. OutcomeOf' = [id \in Ids |-> IF OutcomeOf[id] = "absent" THEN new[id] ELSE OutcomeOf[id]]
  <2>1. ASSUME NEW id \in Ids
        PROVE  row'[id].outcome = IF OutcomeOf[id] = "absent" THEN new[id] ELSE OutcomeOf[id]
    <3>1. CASE id = last'
      BY <1>0, <1>1, <3>1
    <3>2. CASE id # last'
      <4>1. row'[id].outcome = OutcomeOf[id] /\ new[id] = "absent"
        BY <1>0, <3>2 DEF OutcomeOf
      <4> QED BY <4>1
    <3> QED BY <3>1, <3>2
  <2> HIDE DEF new
  <2> QED BY <2>1 DEF OutcomeOf
<1>4. CallsOf' = [id \in Ids |-> IF OutcomeOf[id] = "absent" THEN take[id] ELSE CallsOf[id]]
  <2>1. ASSUME NEW id \in Ids
        PROVE  (IF id <= last' THEN Calls(TypeOf[row'[id].draft]) ELSE 0)
                 = IF OutcomeOf[id] = "absent" THEN take[id] ELSE CallsOf[id]
    <3>1. CASE id = last'
      BY <1>0, <1>1, <3>1
    <3>2. CASE id # last'
      <4>1. row'[id] = row[id] /\ (id <= last' <=> id <= last) /\ take[id] = 0
        BY <1>0, <3>2
      <4>2. id <= last \/ OutcomeOf[id] = "absent"
        <5>1. id \in Nat /\ last \in Nat
          BY <1>0
        <5> QED BY <1>1, <5>1
      <4>3. OutcomeOf[id] = "absent" => ~(id <= last)
        BY <1>0, <1>1
      <4> HIDE DEF take
      <4> QED BY <4>1, <4>2, <4>3 DEF CallsOf
    <3> QED BY <3>1, <3>2
  <2> HIDE DEF take
  <2> QED BY <2>1 DEF CallsOf
<1>5. DoneFor' = DoneFor
  BY <1>0 DEF DoneFor
<1> HIDE DEF new, take
<1>6. Life!Record
  BY <1>2, <1>3, <1>4, <1>5 DEF Life!Record
<1> QED BY <1>6 DEF Life!Next

\* A duplicate is called one.
LEMMA LifeMark ==
  ASSUME Lived, MarkTwin
  PROVE  [Life!Next]_Life!lifeVars
<1>1. last \in 1 .. last /\ last \in Ids /\ Orphan(last) /\ Typed
  BY DecisionConstants DEF MarkTwin, Lived, Settled, TwinAlone, Typed, TypeOK, Ids
<1>2. Becomes(last, "skipped", row[last].payload, row[last].posted) /\ UNCHANGED landed /\ last' = last
  BY <1>1, BecomesFacts DEF MarkTwin
<1>3. row[last].outcome = "pending" /\ ~Acted(last)
  BY <1>1 DEF Orphan
<1> QED BY <1>1, <1>2, <1>3, LifeTaken

LEMMA LifeExpire ==
  ASSUME Lived, BeginRound
  PROVE  [Life!Next]_Life!lifeVars
<1> DEFINE S == {id \in Ids : Stale(id)}
<1>0. row \in [Ids -> Row] /\ UNCHANGED <<last, landed>>
  BY DEF Lived, Settled, Typed, TypeOK, BeginRound
<1>1. \A id \in Ids : /\ row'[id].outcome = IF id \in S THEN "expired" ELSE row[id].outcome
                      /\ row'[id].draft = row[id].draft
  <2>1. \A id \in Ids : row'[id] = IF Stale(id) THEN [row[id] EXCEPT !.outcome = "expired"] ELSE row[id]
    BY DEF BeginRound
  <2> QED BY <1>0, <2>1 DEF Row
<1>2. S \in SUBSET {id \in Ids : OutcomeOf[id] = "pending"}
  BY DEF Stale, OutcomeOf
<1> HIDE DEF S
<1>3. OutcomeOf' = [id \in Ids |-> IF id \in S THEN "expired" ELSE OutcomeOf[id]]
  <2>1. \A id \in Ids : row'[id].outcome = IF id \in S THEN "expired" ELSE OutcomeOf[id]
    BY <1>1 DEF OutcomeOf
  <2> QED BY <2>1 DEF OutcomeOf
<1>4. CallsOf' = CallsOf /\ DoneFor' = DoneFor
  <2>1. \A id \in Ids : row'[id].draft = row[id].draft
    BY <1>1
  <2>2. CallsOf' = CallsOf
    BY <1>0, <2>1 DEF CallsOf
  <2>3. DoneFor' = DoneFor
    BY <1>0 DEF DoneFor
  <2> QED BY <2>2, <2>3
<1>5. Life!Expire
  BY <1>2, <1>3, <1>4 DEF Life!Expire
<1> QED BY <1>5 DEF Life!Next

LEMMA LifeStep == Careful /\ Lived /\ [Next]_vars => [Life!Next]_Life!lifeVars
<1> SUFFICES ASSUME Careful, Lived, [Next]_vars PROVE [Life!Next]_Life!lifeVars
  OBVIOUS
<1>1. CASE UNCHANGED <<row, last, landed>>
  BY <1>1 DEF Life!lifeVars, OutcomeOf, CallsOf, DoneFor
<1>2. ASSUME NEW id \in Ids, Age(id) PROVE [Life!Next]_Life!lifeVars
  <2>1. row \in [Ids -> Row] /\ UNCHANGED <<last, landed>>
    BY <1>2 DEF Lived, Settled, Typed, TypeOK, Age
  <2>2. \A i \in Ids : row'[i].outcome = row[i].outcome /\ row'[i].draft = row[i].draft
    BY <1>2, <2>1 DEF Age, Row
  <2> QED BY <2>1, <2>2 DEF Life!lifeVars, OutcomeOf, CallsOf, DoneFor
<1>3. \/ UNCHANGED <<row, last, landed>> \/ BeginRound \/ RecordNext \/ MarkTwin
      \/ \E id \in Ids : ExecuteNext(id) \/ Age(id)
      \/ \E w \in Executors : RunStep(w)
      \/ \E o \in Operators : \E id \in Ids : ApproveNext(o, id) \/ Reject(o, id)
  BY DEF Next, vars, BeginTick, NoDecision, BeginActing, EndTick, RequestAll, Request, Reconfigure,
     MainDies, DirectorDies, Forget
<1> QED BY <1>1, <1>2, <1>3, LifeExpire, LifeRecord, LifeMark, LifeExecute, LifeRun, LifeApprove, LifeReject

\* LifeSpec: refused decisions never reach the forge, none is done twice or called executed before it is done,
\* and outcomes but "pending" and "expired" are final.
THEOREM ImplementsLife == Careful => (Spec => LifeSpec)
<1>1. Init => Life!Init
  <2> SUFFICES ASSUME Init PROVE Life!Init
    OBVIOUS
  <2>1. OutcomeOf = [id \in Ids |-> "absent"]
    BY DEF Init, OutcomeOf, AbsentRow
  <2>2. CallsOf = [id \in Ids |-> 0]
    BY DecisionConstants DEF Init, CallsOf, Ids
  <2>3. DoneFor = [id \in Ids |-> 0]
    BY DEF Init, DoneFor
  <2> QED BY <2>1, <2>2, <2>3 DEF Life!Init
<1>2. Init => Lived
  BY InitSettled, InitLanded DEF Lived, Init, RunsOnce
<1>3. ASSUME Careful PROVE Lived /\ [Next]_vars => Lived'
  BY <1>3, SettledStep, LandedSoFarStep, RunsOnceStep DEF Lived, Settled
<1>4. ASSUME Careful PROVE Spec => LifeSpec
  BY <1>1, <1>2, <1>3, <1>4, LifeStep, PTL DEF Spec, LifeSpec, Life!Spec
<1> QED BY <1>4
=============================================================================
