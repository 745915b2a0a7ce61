-------------------------- MODULE SupervisorProofs --------------------------
(***************************************************************************)
(* What holds of the costs for any cap, prices, slots, deploys, midnights  *)
(* and crashes: that a day is overrun by no more than what was under way.  *)
(***************************************************************************)
EXTENDS Supervisor, FiniteSetTheorems, TLAPS

Run == [at : Nat, status : {"running", "ok", "error"}, cost : 0 .. RunCost]

PcStates == {"idle", "coder", "reviewer"} \cup (Engines \ {"multi_agent"})

\* The rows are of the past, and the slots are within their bounds.
Typed ==
  /\ clock \in Nat
  /\ runs \in Seq(Run) /\ \A i \in 1 .. Len(runs) : runs[i].at <= clock
  /\ pc \in [Slots -> PcStates]
  /\ row \in [Slots -> Nat] /\ \A s \in Slots : row[s] <= Len(runs)
  /\ acc \in [Slots -> Nat] /\ round \in [Slots -> Nat]

\* What its calls have cost: two of each round of coder and reviewer that is behind it.
AccFits ==
  \A s \in Slots :
    /\ pc[s] = "idle" => acc[s] = 0 /\ round[s] = 0
    /\ pc[s] = "coder" => round[s] <= MaxCritique /\ acc[s] <= round[s] * 2 * MaxCost
    /\ pc[s] = "reviewer" => round[s] <= MaxCritique /\ acc[s] <= round[s] * 2 * MaxCost + MaxCost

RunsOf(d) == {i \in DOMAIN runs : Day(runs[i].at) = d}

\* The slots that are not at work on a run of the day.
Free(d) == {s \in Slots : row[s] = 0 \/ Day(runs[row[s]].at) # d}

\* Only the slots that are at work on a run of the day can still add to it.
Spent ==
  \A d \in Nat : Total(RunsOf(d)) <= Cap - 1 + Cardinality(Free(d)) * RunCost

-----------------------------------------------------------------------------
(* Days and products *)

LEMMA Days ==
  ASSUME NEW t \in Nat
  PROVE  /\ Day(t) \in Nat
         /\ Day(t - DayLen) < Day(t)
         /\ \A u \in Nat : u <= t => Day(u) <= Day(t)
BY SupervisorConstants DEF Day

LEMMA Larger ==
  ASSUME NEW m \in Nat, NEW n \in Nat, m <= n, NEW c \in Nat
  PROVE  m * c \in Nat /\ n * c \in Nat /\ m * c <= n * c
<1>1. PICK k \in Nat : n = m + k
  <2>1. n - m \in Nat /\ n = m + (n - m)
    OBVIOUS
  <2> QED BY <2>1
<1>2. m * c \in Nat /\ k * c \in Nat /\ (m + k) * c = m * c + k * c
  OBVIOUS
<1> QED BY <1>1, <1>2

LEMMA OneMore ==
  ASSUME NEW n \in Nat, NEW c \in Nat
  PROVE  (n + 1) * c = n * c + c /\ n * c \in Nat
OBVIOUS

LEMMA RunCostBounds ==
  /\ RunCost \in Nat /\ MaxCost \in Nat /\ MaxCost <= RunCost
  /\ \A n \in Nat : n <= MaxCritique => n * 2 * MaxCost + MaxCost + MaxCost <= RunCost
<1>1. MaxCost \in Nat /\ MaxCritique \in Nat
  BY SupervisorConstants
<1>2. 2 * MaxCost \in Nat /\ 2 * MaxCost = MaxCost + MaxCost
  BY <1>1
<1>3. ASSUME NEW n \in Nat, n <= MaxCritique PROVE n * 2 * MaxCost + MaxCost + MaxCost <= RunCost
  <2>1. (n + 1) * (2 * MaxCost) <= (MaxCritique + 1) * (2 * MaxCost)
    BY <1>1, <1>2, <1>3, Larger
  <2>2. (n + 1) * (2 * MaxCost) = n * (2 * MaxCost) + 2 * MaxCost
    BY <1>2, OneMore
  <2>3. n * 2 * MaxCost = n * (2 * MaxCost) /\ RunCost = (MaxCritique + 1) * (2 * MaxCost)
    BY <1>1 DEF RunCost
  <2>4. n * (2 * MaxCost) \in Nat
    BY <1>1
  <2> QED BY <1>1, <1>2, <2>1, <2>2, <2>3, <2>4
<1>4. RunCost \in Nat
  BY <1>1 DEF RunCost
<1>5. 0 * 2 * MaxCost = 0
  BY <1>1
<1>6. MaxCost <= RunCost
  BY <1>1, <1>3, <1>4, <1>5
<1> QED BY <1>1, <1>3, <1>4, <1>6

-----------------------------------------------------------------------------
(* Totals *)

Units(r, rows) == UNION {{i} \X (1 .. r[i].cost) : i \in rows}

LEMMA TotalIsUnits == \A rows : Total(rows) = Cardinality(Units(runs, rows))
BY DEF Total, Units

LEMMA UnitsFinite ==
  ASSUME NEW r \in Seq(Run), NEW rows \in SUBSET (1 .. Len(r))
  PROVE  IsFiniteSet(Units(r, rows)) /\ Cardinality(Units(r, rows)) \in Nat
<1>1. Len(r) \in Nat /\ RunCost \in Nat /\ \A i \in 1 .. Len(r) : r[i].cost \in 0 .. RunCost
  <2>1. \A i \in 1 .. Len(r) : r[i] \in Run
    OBVIOUS
  <2> QED BY <2>1, RunCostBounds DEF Run
<1>2. \A i \in rows : 1 .. r[i].cost \subseteq 1 .. RunCost
  BY <1>1
<1>3. Units(r, rows) \subseteq (1 .. Len(r)) \X (1 .. RunCost)
  BY <1>2 DEF Units
<1>4. IsFiniteSet((1 .. Len(r)) \X (1 .. RunCost))
  <2>1. IsFiniteSet(1 .. Len(r)) /\ IsFiniteSet(1 .. RunCost)
    BY <1>1, FS_Interval
  <2> QED BY <2>1, FS_Product
<1> QED BY <1>3, <1>4, FS_Subset, FS_CardinalityType

\* A part costs no more than the whole.
LEMMA UnitsPart ==
  ASSUME NEW r \in Seq(Run), NEW rows \in SUBSET (1 .. Len(r)), NEW part \in SUBSET rows
  PROVE  Cardinality(Units(r, part)) <= Cardinality(Units(r, rows))
<1>1. Units(r, part) \subseteq Units(r, rows)
  BY DEF Units
<1> QED BY <1>1, UnitsFinite, FS_Subset

\* A row that is given a cost adds no more than that to the total.
LEMMA UnitsGrow ==
  ASSUME NEW r \in Seq(Run), NEW rows \in SUBSET (1 .. Len(r)),
         NEW q \in Seq(Run), Len(q) = Len(r),
         NEW k, NEW c \in Nat,
         \A i \in rows : q[i].cost = IF i = k THEN c ELSE r[i].cost
  PROVE  /\ Cardinality(Units(q, rows)) <= Cardinality(Units(r, rows)) + c
         /\ k \notin rows => Cardinality(Units(q, rows)) = Cardinality(Units(r, rows))
<1>1. IsFiniteSet(Units(r, rows)) /\ Cardinality(Units(r, rows)) \in Nat
      /\ Cardinality(Units(q, rows)) \in Nat
  BY UnitsFinite
<1>2. IsFiniteSet({k} \X (1 .. c)) /\ Cardinality({k} \X (1 .. c)) = c
  <2>1. IsFiniteSet({k}) /\ Cardinality({k}) = 1
    BY FS_Singleton
  <2>2. IsFiniteSet(1 .. c) /\ Cardinality(1 .. c) = c
    BY FS_Interval, SMTT(30)
  <2>3. IsFiniteSet({k} \X (1 .. c)) /\ Cardinality({k} \X (1 .. c)) = Cardinality({k}) * Cardinality(1 .. c)
    BY <2>1, <2>2, FS_Product
  <2> QED BY <2>1, <2>2, <2>3
<1>3. Units(q, rows) \subseteq Units(r, rows) \cup ({k} \X (1 .. c))
  <2> SUFFICES ASSUME NEW i \in rows, NEW u \in {i} \X (1 .. q[i].cost)
               PROVE  u \in Units(r, rows) \cup ({k} \X (1 .. c))
    BY DEF Units
  <2>1. CASE i = k
    BY <2>1
  <2>2. CASE i # k
    <3>1. u \in {i} \X (1 .. r[i].cost)
      BY <2>2
    <3> QED BY <3>1 DEF Units
  <2> QED BY <2>1, <2>2
<1>4. /\ IsFiniteSet(Units(r, rows) \cup ({k} \X (1 .. c)))
      /\ Cardinality(Units(r, rows) \cup ({k} \X (1 .. c))) <= Cardinality(Units(r, rows)) + c
  <2>1. Cardinality(Units(r, rows) \cap ({k} \X (1 .. c))) \in Nat
    BY <1>1, FS_Intersection, FS_CardinalityType
  <2> DEFINE A == Units(r, rows)
             B == {k} \X (1 .. c)
  <2>2. IsFiniteSet(A \cup B) /\ Cardinality(A \cup B) = Cardinality(A) + Cardinality(B) - Cardinality(A \cap B)
    <3> HIDE DEF A, B
    <3>1. IsFiniteSet(A) /\ IsFiniteSet(B)
      BY <1>1, <1>2 DEF A, B
    <3> QED BY <3>1, FS_Union
  <2>3. Cardinality(B) = c
    BY <1>2
  <2> HIDE DEF A, B
  <2> QED BY <1>1, <2>1, <2>2, <2>3 DEF A, B
<1>5. Cardinality(Units(q, rows)) <= Cardinality(Units(r, rows) \cup ({k} \X (1 .. c)))
  BY <1>3, <1>4, FS_Subset
<1>6. Cardinality(Units(r, rows) \cup ({k} \X (1 .. c))) \in Nat
  BY <1>4, FS_CardinalityType
<1>7. ASSUME k \notin rows PROVE Units(q, rows) = Units(r, rows)
  BY <1>7 DEF Units
<1> QED BY <1>1, <1>4, <1>5, <1>6, <1>7

\* More slots make room for more.
LEMMA RoomGrows ==
  ASSUME NEW F \in SUBSET Slots, NEW G \in SUBSET Slots, F \subseteq G
  PROVE  /\ Cardinality(F) \in Nat /\ Cardinality(G) \in Nat
         /\ Cardinality(F) * RunCost \in Nat /\ Cardinality(G) * RunCost \in Nat
         /\ Cardinality(F) * RunCost <= Cardinality(G) * RunCost
         /\ \A s \in G \ F : Cardinality(F) * RunCost + RunCost <= Cardinality(G) * RunCost
<1>1. IsFiniteSet(F) /\ IsFiniteSet(G) /\ Cardinality(F) <= Cardinality(G)
      /\ Cardinality(F) \in Nat /\ Cardinality(G) \in Nat
  <2>1. IsFiniteSet(F) /\ IsFiniteSet(G)
    BY SupervisorConstants, FS_Subset
  <2> QED BY <2>1, FS_Subset, FS_CardinalityType
<1>2. Cardinality(F) * RunCost <= Cardinality(G) * RunCost
  BY <1>1, RunCostBounds, Larger
<1>3. ASSUME NEW s \in G \ F PROVE Cardinality(F) * RunCost + RunCost <= Cardinality(G) * RunCost
  <2>1. Cardinality(F \cup {s}) = Cardinality(F) + 1 /\ Cardinality(F \cup {s}) <= Cardinality(G)
    <3>1. F \cup {s} \subseteq G
      BY <1>3
    <3> QED BY <1>1, <1>3, <3>1, FS_AddElement, FS_Subset
  <2>2. (Cardinality(F) + 1) * RunCost <= Cardinality(G) * RunCost
    BY <1>1, <2>1, RunCostBounds, Larger
  <2> QED BY <1>1, <2>2, OneMore, RunCostBounds
<1> QED BY <1>1, <1>2, <1>3, RunCostBounds

-----------------------------------------------------------------------------
(* What a turn does *)

\* The run of a slot ends, with its cost or without.
Ends(s) ==
  /\ clock' = clock /\ Leave(s)
  /\ \/ UNCHANGED runs
     \/ \E status \in {"ok", "error"}, cost \in 0 .. RunCost : finishRun(s, status, cost)

\* It goes on.
GoesOn(s) ==
  /\ UNCHANGED <<clock, runs, row>>
  /\ pc' \in [Slots -> PcStates] /\ acc' \in [Slots -> Nat] /\ round' \in [Slots -> Nat]
  /\ AccFits'

\* A run begins under the cap.
Begins(s) ==
  /\ ~CapReached /\ pc[s] = "idle"
  /\ \E first \in PcStates \ {"idle", "reviewer"} : pc' = [pc EXCEPT ![s] = first]
  /\ runs' = Append(runs, [at |-> clock, status |-> "running", cost |-> 0])
  /\ row' = [row EXCEPT ![s] = Len(runs) + 1]
  /\ UNCHANGED <<clock, acc, round>>

LEMMA SelectsAnEngine ==
  ASSUME NEW kind \in Kinds, NEW override \in {"mimo", "claude_code", None}
  PROVE  selectEngine(kind, override) \in Engines
BY SupervisorConstants DEF selectEngine, Engines

LEMMA RunBegins ==
  ASSUME NEW s \in Slots, StartRun(s) \/ ReviewItem(s)
  PROVE  Begins(s)
<1>1. PICK kind \in Kinds, override \in {"mimo", "claude_code", None} : runJob(s, kind, override)
  BY SupervisorConstants DEF StartRun, ReviewItem
<1>2. selectEngine(kind, override) \in Engines
  BY SelectsAnEngine
<1> QED BY <1>1, <1>2 DEF runJob, Begins, PcStates, Engines

LEMMA CallCostBound == \A engine : CallCosts(engine) \subseteq 0 .. MaxCost
BY SupervisorConstants DEF CallCosts

LEMMA SucceedEnds ==
  ASSUME NEW s \in Slots, NEW cost \in 0 .. RunCost, Succeed(s, cost), clock' = clock
  PROVE  Ends(s)
BY RunCostBounds DEF Succeed, Ends

LEMMA FailEnds ==
  ASSUME NEW s \in Slots, Fail(s), clock' = clock
  PROVE  Ends(s)
BY RunCostBounds DEF Fail, Ends

\* The agent is killed, and something holds its pipes.
Holds(s) == KillChild(s) /\ UNCHANGED <<pc, row, acc, round, runs>>

LEMMA CallEnds ==
  ASSUME NEW s \in Slots,
         \/ AnthropicAnswers(s) \/ MimoAnswers(s) \/ MimoExhausted(s) \/ Aborted(s)
         \/ AgentAnswers(s) \/ AgentErrs(s) \/ (KillChild(s) /\ ~Holds(s))
  PROVE  Ends(s)
<1>1. clock' = clock /\ (Fail(s) \/ \E engine, cost \in 0 .. MaxCost : Succeed(s, cost))
  BY CallCostBound DEF AnthropicAnswers, MimoAnswers, MimoExhausted, Aborted, AgentAnswers, AgentErrs,
     KillChild, Holds, Quiet
<1>2. \A cost \in 0 .. MaxCost : cost \in 0 .. RunCost
  BY RunCostBounds
<1> QED BY <1>1, <1>2, SucceedEnds, FailEnds

LEMMA Waits ==
  ASSUME Typed, AccFits, NEW s \in Slots, MimoRetries(s) \/ TimesOut(s) \/ Holds(s)
  PROVE  GoesOn(s)
<1>1. UNCHANGED <<clock, runs, row, pc, acc>>
  BY DEF MimoRetries, TimesOut, Holds, KillChild, Quiet
<1>2. CASE round' = round
  BY <1>1, <1>2 DEF GoesOn, AccFits, Typed
<1>3. CASE MimoRetries(s)
  <2>1. pc[s] = "mimo" /\ round' = [round EXCEPT ![s] = @ + 1] /\ round \in [Slots -> Nat]
    BY <1>3 DEF MimoRetries, Typed
  <2>2. round' \in [Slots -> Nat] /\ \A z \in Slots : z # s => round'[z] = round[z]
    BY <2>1
  <2> QED BY <1>1, <2>1, <2>2 DEF GoesOn, AccFits, Typed
<1> QED BY <1>2, <1>3 DEF TimesOut, Holds

LEMMA CoderTurn ==
  ASSUME Typed, AccFits, NEW s \in Slots, CoderEnds(s)
  PROVE  Ends(s) \/ GoesOn(s)
<1>0. /\ pc[s] = "coder" /\ clock' = clock
      /\ round[s] \in Nat /\ round[s] <= MaxCritique /\ acc[s] \in Nat
      /\ acc[s] <= round[s] * 2 * MaxCost /\ round[s] * 2 * MaxCost \in Nat
      /\ MaxCost \in Nat /\ RunCost \in Nat
  <2>1. round[s] \in Nat /\ MaxCost \in Nat => round[s] * 2 * MaxCost \in Nat
    OBVIOUS
  <2> QED BY <2>1, RunCostBounds DEF CoderEnds, Quiet, Typed, AccFits
<1>1. round[s] * 2 * MaxCost + MaxCost + MaxCost <= RunCost
  BY <1>0, RunCostBounds
<1>2. PICK cost \in 0 .. MaxCost :
        \/ Succeed(s, acc[s] + cost)
        \/ /\ acc' = [acc EXCEPT ![s] = @ + cost] /\ pc' = [pc EXCEPT ![s] = "reviewer"]
           /\ UNCHANGED <<runs, row, round>>
  BY CallCostBound DEF CoderEnds
<1> HIDE DEF RunCost
<1>3. acc[s] + cost \in 0 .. RunCost /\ acc[s] + cost <= round[s] * 2 * MaxCost + MaxCost
  <2> DEFINE a == round[s] * 2 * MaxCost
  <2> HIDE DEF a
  <2> QED BY <1>0, <1>1 DEF a
<1>4. CASE Succeed(s, acc[s] + cost)
  BY <1>0, <1>3, <1>4, SucceedEnds
<1>5. CASE /\ acc' = [acc EXCEPT ![s] = @ + cost] /\ pc' = [pc EXCEPT ![s] = "reviewer"]
           /\ UNCHANGED <<runs, row, round>>
  <2>1. /\ acc' \in [Slots -> Nat] /\ acc'[s] = acc[s] + cost
        /\ pc' \in [Slots -> PcStates] /\ pc'[s] = "reviewer"
        /\ \A z \in Slots : z # s => acc'[z] = acc[z] /\ pc'[z] = pc[z]
    BY <1>0, <1>3, <1>5, SMTT(30) DEF Typed, PcStates
  <2>2. AccFits'
    BY <1>0, <1>3, <1>5, <2>1 DEF AccFits
  <2> QED BY <1>0, <1>5, <2>1, <2>2 DEF GoesOn, Typed
<1> QED BY <1>2, <1>4, <1>5

LEMMA ReviewerTurn ==
  ASSUME Typed, AccFits, NEW s \in Slots, ReviewerFails(s) \/ ReviewerAnswers(s)
  PROVE  Ends(s) \/ GoesOn(s)
<1>0. /\ pc[s] = "reviewer" /\ clock' = clock
      /\ round[s] \in Nat /\ round[s] <= MaxCritique /\ acc[s] \in Nat /\ MaxCritique \in Nat
      /\ acc[s] <= round[s] * 2 * MaxCost + MaxCost /\ round[s] * 2 * MaxCost \in Nat
      /\ MaxCost \in Nat /\ RunCost \in Nat
  <2>1. round[s] \in Nat /\ MaxCost \in Nat => round[s] * 2 * MaxCost \in Nat
    OBVIOUS
  <2> QED BY <2>1, RunCostBounds, SupervisorConstants DEF ReviewerFails, ReviewerAnswers, Quiet, Typed, AccFits
<1>1. round[s] * 2 * MaxCost + MaxCost + MaxCost <= RunCost
  BY <1>0, RunCostBounds
<1>2. PICK cost \in 0 .. MaxCost :
        \/ Succeed(s, acc[s] + cost)
        \/ /\ round[s] < MaxCritique
           /\ acc' = [acc EXCEPT ![s] = @ + cost] /\ pc' = [pc EXCEPT ![s] = "coder"]
           /\ round' = [round EXCEPT ![s] = @ + 1]
           /\ UNCHANGED <<runs, row>>
  <2>1. CASE ReviewerFails(s)
    <3>1. 0 \in 0 .. MaxCost /\ acc[s] + 0 = acc[s]
      BY <1>0
    <3> QED BY <2>1, <3>1 DEF ReviewerFails
  <2>2. CASE ReviewerAnswers(s)
    <3>1. round[s] >= MaxCritique \/ round[s] < MaxCritique
      BY <1>0
    <3> QED BY <2>2, <3>1, CallCostBound DEF ReviewerAnswers
  <2> QED BY <2>1, <2>2
<1> HIDE DEF RunCost
<1>3. /\ acc[s] + cost \in 0 .. RunCost
      /\ acc[s] + cost <= round[s] * 2 * MaxCost + MaxCost + MaxCost
  <2> DEFINE a == round[s] * 2 * MaxCost
  <2> HIDE DEF a
  <2> QED BY <1>0, <1>1 DEF a
<1>4. CASE Succeed(s, acc[s] + cost)
  BY <1>0, <1>3, <1>4, SucceedEnds
<1>5. CASE /\ round[s] < MaxCritique
           /\ acc' = [acc EXCEPT ![s] = @ + cost] /\ pc' = [pc EXCEPT ![s] = "coder"]
           /\ round' = [round EXCEPT ![s] = @ + 1]
           /\ UNCHANGED <<runs, row>>
  <2>1. /\ acc' \in [Slots -> Nat] /\ acc'[s] = acc[s] + cost
        /\ pc' \in [Slots -> PcStates] /\ pc'[s] = "coder"
        /\ round' \in [Slots -> Nat] /\ round'[s] = round[s] + 1
        /\ \A z \in Slots : z # s => acc'[z] = acc[z] /\ pc'[z] = pc[z] /\ round'[z] = round[z]
    <3>1. acc[s] + cost \in Nat /\ round[s] + 1 \in Nat
      BY <1>0
    <3>2. acc \in [Slots -> Nat] /\ pc \in [Slots -> PcStates] /\ round \in [Slots -> Nat]
          /\ "coder" \in PcStates
      BY DEF Typed, PcStates
    <3> QED BY <1>5, <3>1, <3>2
  <2>2. (round[s] + 1) * 2 * MaxCost = round[s] * 2 * MaxCost + MaxCost + MaxCost
    BY <1>0
  <2>3. round'[s] <= MaxCritique /\ acc'[s] <= round'[s] * 2 * MaxCost
    <3>1. round[s] + 1 <= MaxCritique
      BY <1>0, <1>5
    <3> QED BY <1>3, <2>1, <2>2, <3>1
  <2>4. AccFits'
    BY <2>1, <2>3 DEF AccFits
  <2> QED BY <1>0, <1>5, <2>1, <2>4 DEF GoesOn
<1> QED BY <1>2, <1>4, <1>5

LEMMA TurnShape ==
  ASSUME Typed, AccFits, NEW s \in Slots, Turn(s)
  PROVE  Begins(s) \/ Ends(s) \/ GoesOn(s)
BY RunBegins, CallEnds, Waits, CoderTurn, ReviewerTurn DEF Turn

-----------------------------------------------------------------------------
(* The types *)

Closed(r, status, cost) == [r EXCEPT !.status = status, !.cost = cost]

LEMMA RowTypes ==
  /\ \A t \in Nat : [at |-> t, status |-> "running", cost |-> 0] \in Run
  /\ \A r \in Run : \A status \in {"ok", "error"}, cost \in 0 .. RunCost :
       /\ Closed(r, status, cost) \in Run
       /\ Closed(r, status, cost).at = r.at
       /\ Closed(r, status, cost).cost = cost
  /\ \A r \in Run : [r EXCEPT !.status = "error"] \in Run
                    /\ [r EXCEPT !.status = "error"].at = r.at
                    /\ [r EXCEPT !.status = "error"].cost = r.cost
<1>1. 0 \in 0 .. RunCost
  BY RunCostBounds
<1> HIDE DEF RunCost
<1> QED BY <1>1 DEF Run, Closed

LEMMA SeqFormation ==
  ASSUME NEW n \in Nat, NEW f, f = [i \in 1 .. n |-> f[i]], \A i \in 1 .. n : f[i] \in Run
  PROVE  f \in Seq(Run) /\ Len(f) = n
<1>1. f \in [1 .. n -> Run]
  OBVIOUS
<1> HIDE DEF Run
<1> QED BY <1>1

\* The row of a run that ends.
LEMMA Finished ==
  ASSUME Typed, NEW s \in Slots, NEW status \in {"ok", "error"}, NEW cost \in 0 .. RunCost,
         finishRun(s, status, cost)
  PROVE  /\ runs' \in Seq(Run) /\ Len(runs') = Len(runs)
         /\ \A i \in 1 .. Len(runs) : /\ runs'[i].at = runs[i].at
                                      /\ runs'[i].cost = IF i = row[s] THEN cost ELSE runs[i].cost
<1>1. runs \in Seq(Run) /\ DOMAIN runs = 1 .. Len(runs) /\ Len(runs) \in Nat
  BY DEF Typed
<1>2. DOMAIN runs' = 1 .. Len(runs) /\ runs' = [i \in 1 .. Len(runs) |-> runs'[i]]
  BY <1>1 DEF finishRun
<1>3. \A i \in 1 .. Len(runs) : runs'[i] = IF i = row[s] THEN Closed(runs[i], status, cost) ELSE runs[i]
  <2>1. ASSUME NEW i \in 1 .. Len(runs), i = row[s] PROVE runs'[i] = Closed(runs[i], status, cost)
    BY <1>1, <2>1 DEF finishRun, Closed
  <2>2. ASSUME NEW i \in 1 .. Len(runs), i # row[s] PROVE runs'[i] = runs[i]
    BY <1>1, <2>2 DEF finishRun
  <2> QED BY <2>1, <2>2
<1>4. \A i \in 1 .. Len(runs) : runs[i] \in Run
  BY <1>1
<1>5. \A i \in 1 .. Len(runs) : runs'[i] \in Run
  BY <1>3, <1>4, RowTypes
<1>6. runs' \in Seq(Run) /\ Len(runs') = Len(runs)
  BY <1>1, <1>2, <1>5, SeqFormation
<1>7. \A i \in 1 .. Len(runs) : /\ runs'[i].at = runs[i].at
                                /\ runs'[i].cost = IF i = row[s] THEN cost ELSE runs[i].cost
  BY <1>3, <1>4, RowTypes
<1> QED BY <1>6, <1>7

\* The rows after a boot.
LEMMA Recovered ==
  ASSUME Typed, Boot
  PROVE  /\ runs' \in Seq(Run) /\ Len(runs') = Len(runs)
         /\ \A i \in 1 .. Len(runs) : runs'[i].at = runs[i].at /\ runs'[i].cost = runs[i].cost
<1>1. runs \in Seq(Run) /\ DOMAIN runs = 1 .. Len(runs)
  BY DEF Typed
<1>2. runs' = [i \in 1 .. Len(runs) |->
                 IF runs[i].status = "running" THEN [runs[i] EXCEPT !.status = "error"] ELSE runs[i]]
  BY <1>1 DEF Boot
<1>3. \A i \in 1 .. Len(runs) : runs[i] \in Run
  BY <1>1
<1>4. \A i \in 1 .. Len(runs) : runs'[i] \in Run
  BY <1>2, <1>3, RowTypes
<1>5. runs' \in Seq(Run) /\ Len(runs') = Len(runs)
  BY <1>1, <1>2, <1>4
<1> QED BY <1>2, <1>3, <1>5, RowTypes

LEMMA EndsTyped ==
  ASSUME Typed, AccFits, NEW s \in Slots, Ends(s)
  PROVE  Typed' /\ AccFits'
<1>1. /\ runs' \in Seq(Run) /\ Len(runs') = Len(runs)
      /\ \A i \in 1 .. Len(runs) : runs'[i].at = runs[i].at
  BY Finished DEF Ends, Typed
<1>2. /\ pc' = [pc EXCEPT ![s] = "idle"] /\ row' = [row EXCEPT ![s] = 0]
      /\ acc' = [acc EXCEPT ![s] = 0] /\ round' = [round EXCEPT ![s] = 0] /\ clock' = clock
  BY DEF Ends, Leave
<1>3. Len(runs) \in Nat
  BY DEF Typed
<1>4. Typed'
  <2>1. pc' \in [Slots -> PcStates] /\ acc' \in [Slots -> Nat] /\ round' \in [Slots -> Nat]
    BY <1>2 DEF Typed, PcStates
  <2>2. row' \in [Slots -> Nat] /\ \A z \in Slots : row'[z] <= Len(runs)
    BY <1>2, <1>3 DEF Typed
  <2>3. \A i \in 1 .. Len(runs') : runs'[i].at <= clock
    BY <1>1 DEF Typed
  <2> QED BY <1>1, <1>2, <2>1, <2>2, <2>3 DEF Typed
<1>5. AccFits'
  BY <1>2 DEF AccFits, Typed
<1> QED BY <1>4, <1>5

LEMMA BeginsTyped ==
  ASSUME Typed, AccFits, NEW s \in Slots, Begins(s)
  PROVE  Typed' /\ AccFits'
<1>1. PICK first \in PcStates \ {"idle", "reviewer"} : pc' = [pc EXCEPT ![s] = first]
  BY DEF Begins
<1>2. /\ runs' = Append(runs, [at |-> clock, status |-> "running", cost |-> 0])
      /\ row' = [row EXCEPT ![s] = Len(runs) + 1] /\ pc[s] = "idle"
      /\ UNCHANGED <<clock, acc, round>>
  BY DEF Begins
<1>3. /\ runs' \in Seq(Run) /\ Len(runs') = Len(runs) + 1 /\ Len(runs) \in Nat
      /\ \A i \in 1 .. Len(runs') : runs'[i].at <= clock
  <2>1. [at |-> clock, status |-> "running", cost |-> 0] \in Run /\ runs \in Seq(Run) /\ clock \in Nat
    BY RowTypes DEF Typed
  <2>2. \A i \in 1 .. Len(runs) : runs[i].at <= clock
    BY DEF Typed
  <2>3. runs' \in Seq(Run) /\ Len(runs') = Len(runs) + 1 /\ Len(runs) \in Nat
    BY <1>2, <2>1
  <2>4. ASSUME NEW i \in 1 .. Len(runs') PROVE runs'[i].at <= clock
    <3>1. CASE i = Len(runs) + 1
      BY <1>2, <2>1, <2>3, <3>1
    <3>2. CASE i # Len(runs) + 1
      <4>1. i \in 1 .. Len(runs) /\ runs'[i] = runs[i]
        BY <1>2, <2>1, <2>3, <2>4, <3>2
      <4> QED BY <2>2, <4>1
    <3> QED BY <3>1, <3>2
  <2> QED BY <2>3, <2>4
<1>4. Typed'
  BY <1>1, <1>2, <1>3, SMTT(30) DEF Typed
<1>5. acc[s] = 0 /\ round[s] = 0
  BY <1>2 DEF AccFits
<1>6. 0 <= MaxCritique /\ 0 <= 0 * 2 * MaxCost
  BY SupervisorConstants
<1>7. AccFits'
  <2>1. pc'[s] = first /\ \A z \in Slots : z # s => pc'[z] = pc[z]
    BY <1>1 DEF Typed
  <2> QED BY <1>1, <1>2, <1>5, <1>6, <2>1 DEF AccFits
<1> QED BY <1>4, <1>7

LEMMA DeadTyped ==
  ASSUME Typed, AccFits, NEW S, Dead(S), UNCHANGED <<clock, runs>>
  PROVE  Typed' /\ AccFits'
<1>1. Len(runs) \in Nat
  BY DEF Typed
<1>2. Typed'
  BY <1>1 DEF Typed, Dead, PcStates
<1>3. AccFits'
  BY DEF AccFits, Dead
<1> QED BY <1>2, <1>3

LEMMA InitTyped == Init => Typed /\ AccFits /\ Spent
<1> SUFFICES ASSUME Init PROVE Typed /\ AccFits /\ Spent
  OBVIOUS
<1>1. Typed
  BY DEF Init, Typed, PcStates
<1>2. AccFits
  BY DEF Init, AccFits
<1>3. ASSUME NEW d \in Nat PROVE Total(RunsOf(d)) <= Cap - 1 + Cardinality(Free(d)) * RunCost
  <2>1. Units(runs, RunsOf(d)) = {}
    BY DEF Init, RunsOf, Units
  <2>2. Total(RunsOf(d)) = 0
    BY <2>1, TotalIsUnits, FS_EmptySet
  <2>3. Cap \in Nat \ {0}
    BY SupervisorConstants
  <2>4. Cardinality(Free(d)) * RunCost \in Nat
    BY RoomGrows DEF Free
  <2> HIDE DEF RunCost
  <2> QED BY <2>2, <2>3, <2>4
<1> QED BY <1>1, <1>2, <1>3 DEF Spent

\* Steps of the environment but for a crash leave the slots alone.
LEMMA TypedStep == Typed /\ AccFits /\ [Next]_vars => Typed' /\ AccFits'
<1> SUFFICES ASSUME Typed, AccFits, [Next]_vars PROVE Typed' /\ AccFits'
  OBVIOUS
<1>1. ASSUME NEW s \in Slots, Turn(s) PROVE Typed' /\ AccFits'
  <2>1. CASE Begins(s)
    BY <2>1, BeginsTyped
  <2>2. CASE Ends(s)
    BY <2>2, EndsTyped
  <2>3. CASE GoesOn(s)
    BY <2>3 DEF GoesOn, Typed
  <2> QED BY <1>1, <2>1, <2>2, <2>3, TurnShape
<1>2. ASSUME NEW s \in Slots, CliDies(s) PROVE Typed' /\ AccFits'
  BY <1>2, DeadTyped DEF CliDies, db
<1>3. CASE Crash
  BY <1>3, DeadTyped DEF Crash, db
<1>4. CASE Boot
  <2>1. UNCHANGED <<clock, pc, row, acc, round>>
    BY <1>4 DEF Boot, turn
  <2> QED BY <1>4, <2>1, Recovered DEF Typed, AccFits
<1>5. CASE Tick
  <2>1. UNCHANGED <<runs, pc, row, acc, round>> /\ clock' = clock + 1
    BY <1>5 DEF Tick, turn, db
  <2>2. clock' \in Nat /\ \A i \in 1 .. Len(runs) : runs[i].at <= clock'
    <3>1. \A i \in 1 .. Len(runs) : runs[i] \in Run
      BY DEF Typed
    <3>2. \A i \in 1 .. Len(runs) : runs[i].at \in Nat
      BY <3>1 DEF Run
    <3> QED BY <2>1, <3>2 DEF Typed
  <2> QED BY <2>1, <2>2 DEF Typed, AccFits
<1>6. CASE UNCHANGED <<clock, runs, pc, row, acc, round>>
  BY <1>6 DEF Typed, AccFits
<1>7. CASE (\E config \in DeployConfigs : DeployNow(config) \/ \E push \in Pushes : PushHook(config, push))
           \/ finishDeploy \/ UNCHANGED vars
  <2>1. UNCHANGED <<clock, runs, pc, row, acc, round>>
    BY <1>7 DEF DeployNow, PushHook, runDeploy, finishDeploy, vars, turn, db
  <2> QED BY <1>6, <2>1
<1> QED BY <1>1, <1>2, <1>3, <1>4, <1>5, <1>7 DEF Next

-----------------------------------------------------------------------------
(* The costs of a day *)

LEMMA StaysInRoom ==
  ASSUME NEW cap \in Nat, NEW t \in Nat, NEW c \in Nat, NEW u \in Nat, NEW e \in Nat, NEW x \in Nat,
         t <= cap - 1 + c, u <= t + x, c + x <= e
  PROVE  u <= cap - 1 + e
OBVIOUS

LEMMA StartsInRoom ==
  ASSUME NEW cap \in Nat, NEW u \in Nat, NEW e \in Nat, u < cap
  PROVE  u <= cap - 1 + e
OBVIOUS

\* What cost the runs of a day, and room for what may come, in numbers.
LEMMA Numbers ==
  ASSUME Typed, NEW d \in Nat
  PROVE  /\ RunsOf(d) \in SUBSET (1 .. Len(runs)) /\ runs \in Seq(Run)
         /\ Total(RunsOf(d)) = Cardinality(Units(runs, RunsOf(d))) /\ Total(RunsOf(d)) \in Nat
         /\ Free(d) \in SUBSET Slots /\ Cardinality(Free(d)) * RunCost \in Nat
<1>1. RunsOf(d) \in SUBSET (1 .. Len(runs)) /\ runs \in Seq(Run)
  BY DEF RunsOf, Typed
<1>2. Free(d) \in SUBSET Slots
  BY DEF Free
<1> QED BY <1>1, <1>2, TotalIsUnits, UnitsFinite, RoomGrows

LEMMA NumbersThen ==
  ASSUME Typed', NEW d \in Nat
  PROVE  /\ RunsOf(d)' \in SUBSET (1 .. Len(runs')) /\ runs' \in Seq(Run)
         /\ Total(RunsOf(d))' = Cardinality(Units(runs', RunsOf(d)')) /\ Total(RunsOf(d))' \in Nat
         /\ Free(d)' \in SUBSET Slots /\ (Cardinality(Free(d)) * RunCost)' \in Nat
<1>1. RunsOf(d)' \in SUBSET (1 .. Len(runs')) /\ runs' \in Seq(Run)
  BY DEF RunsOf, Typed
<1>2. Free(d)' \in SUBSET Slots
  BY DEF Free
<1>3. Total(RunsOf(d))' = Cardinality(Units(runs', RunsOf(d)'))
  BY DEF Total, Units
<1>4. (Cardinality(Free(d)) * RunCost)' = Cardinality(Free(d)') * RunCost
  BY DEF RunCost
<1> QED BY <1>1, <1>2, <1>3, <1>4, UnitsFinite, RoomGrows

\* No row changes its day or its cost, and no slot takes up work.
LEMMA SpentKept ==
  ASSUME Typed, Typed', Spent, Len(runs') = Len(runs),
         \A i \in 1 .. Len(runs) : runs'[i].at = runs[i].at /\ runs'[i].cost = runs[i].cost,
         \A s \in Slots : row'[s] = row[s] \/ row'[s] = 0
  PROVE  Spent'
<1> SUFFICES ASSUME NEW d \in Nat PROVE (Total(RunsOf(d)) <= Cap - 1 + Cardinality(Free(d)) * RunCost)'
  BY DEF Spent
<1>1. Total(RunsOf(d)) <= Cap - 1 + Cardinality(Free(d)) * RunCost
  BY DEF Spent
<1>2. DOMAIN runs = 1 .. Len(runs) /\ DOMAIN runs' = 1 .. Len(runs)
  BY DEF Typed
<1>3. RunsOf(d)' = RunsOf(d)
  BY <1>2 DEF RunsOf
<1>4. Free(d) \subseteq Free(d)'
  <2> SUFFICES ASSUME NEW s \in Slots, row[s] = 0 \/ Day(runs[row[s]].at) # d, row'[s] # 0
               PROVE  Day(runs'[row'[s]].at) # d
    BY DEF Free
  <2>1. row[s] \in 1 .. Len(runs) /\ row'[s] = row[s]
    BY DEF Typed
  <2> QED BY <2>1
<1>5. Total(RunsOf(d))' = Cardinality(Units(runs', RunsOf(d)')) /\ Total(RunsOf(d))' \in Nat
      /\ Free(d)' \in SUBSET Slots /\ (Cardinality(Free(d)) * RunCost)' \in Nat /\ runs' \in Seq(Run)
  BY NumbersThen
<1>6. /\ RunsOf(d) \in SUBSET (1 .. Len(runs)) /\ runs \in Seq(Run)
      /\ Total(RunsOf(d)) = Cardinality(Units(runs, RunsOf(d))) /\ Total(RunsOf(d)) \in Nat
      /\ Free(d) \in SUBSET Slots /\ Cardinality(Free(d)) * RunCost \in Nat
  BY Numbers
<1>7. Units(runs', RunsOf(d)) = Units(runs, RunsOf(d))
  BY <1>6 DEF Units
<1>8. Total(RunsOf(d))' = Total(RunsOf(d))
  BY <1>3, <1>5, <1>6, <1>7
<1>9. Cardinality(Free(d)) * RunCost <= (Cardinality(Free(d)) * RunCost)'
  <2>1. Cardinality(Free(d)) * RunCost <= Cardinality(Free(d)') * RunCost
    BY <1>4, <1>5, <1>6, RoomGrows
  <2> QED BY <2>1 DEF RunCost
<1>10. Cap \in Nat
  BY SupervisorConstants
<1>11. Cap' = Cap
  OBVIOUS
<1> DEFINE t == Total(RunsOf(d))
           c == Cardinality(Free(d)) * RunCost
<1> HIDE DEF t, c
<1>12. t' = t /\ t <= Cap - 1 + c /\ c <= c' /\ t \in Nat /\ c \in Nat /\ c' \in Nat
  BY <1>1, <1>5, <1>6, <1>8, <1>9 DEF t, c
<1>13. t' <= Cap - 1 + c'
  BY <1>10, <1>12
<1> QED BY <1>13 DEF t, c

\* A run that ends adds its cost to its day, and its slot is free for another.
LEMMA SpentEnds ==
  ASSUME Typed, Typed', Spent, NEW s \in Slots, NEW status \in {"ok", "error"}, NEW cost \in 0 .. RunCost,
         finishRun(s, status, cost), row' = [row EXCEPT ![s] = 0]
  PROVE  Spent'
<1> SUFFICES ASSUME NEW d \in Nat PROVE (Total(RunsOf(d)) <= Cap - 1 + Cardinality(Free(d)) * RunCost)'
  BY DEF Spent
<1> DEFINE t == Total(RunsOf(d))
           c == Cardinality(Free(d)) * RunCost
<1>1. t <= Cap - 1 + c
  BY DEF Spent
<1>2. /\ runs' \in Seq(Run) /\ Len(runs') = Len(runs)
      /\ \A i \in 1 .. Len(runs) : /\ runs'[i].at = runs[i].at
                                   /\ runs'[i].cost = IF i = row[s] THEN cost ELSE runs[i].cost
  BY Finished
<1>3. DOMAIN runs = 1 .. Len(runs) /\ DOMAIN runs' = 1 .. Len(runs)
  BY <1>2 DEF Typed
<1>4. RunsOf(d)' = RunsOf(d)
  BY <1>2, <1>3 DEF RunsOf
<1>5. t' = Cardinality(Units(runs', RunsOf(d)')) /\ t' \in Nat
      /\ Free(d)' \in SUBSET Slots /\ c' = Cardinality(Free(d)') * RunCost /\ c' \in Nat
  BY NumbersThen DEF RunCost
<1>6. /\ RunsOf(d) \in SUBSET (1 .. Len(runs)) /\ runs \in Seq(Run)
      /\ t = Cardinality(Units(runs, RunsOf(d))) /\ t \in Nat
      /\ Free(d) \in SUBSET Slots /\ c \in Nat
  BY Numbers
<1>7. RunCost \in Nat /\ cost \in Nat /\ cost <= RunCost /\ Cap \in Nat
  BY RunCostBounds, SupervisorConstants
<1>8. /\ t' <= t + cost
      /\ row[s] \notin RunsOf(d) => t' = t
  <2>1. \A i \in RunsOf(d) : runs'[i].cost = IF i = row[s] THEN cost ELSE runs[i].cost
    BY <1>2, <1>6
  <2> HIDE DEF RunsOf
  <2>2. /\ Cardinality(Units(runs', RunsOf(d))) <= Cardinality(Units(runs, RunsOf(d))) + cost
        /\ row[s] \notin RunsOf(d) => Cardinality(Units(runs', RunsOf(d))) = Cardinality(Units(runs, RunsOf(d)))
    BY <1>2, <1>6, <1>7, <2>1, UnitsGrow, ZenonT(30)
  <2> QED BY <1>4, <1>5, <1>6, <2>2
<1>9. Free(d) \subseteq Free(d)'
  <2> SUFFICES ASSUME NEW z \in Slots, row[z] = 0 \/ Day(runs[row[z]].at) # d, row'[z] # 0
               PROVE  Day(runs'[row'[z]].at) # d
    BY DEF Free
  <2>1. z # s /\ row'[z] = row[z] /\ row[z] \in 1 .. Len(runs)
    BY SMTT(30) DEF Typed
  <2> QED BY <1>2, <2>1
<1>10. row[s] \in RunsOf(d) => s \in Free(d)' \ Free(d)
  <2> SUFFICES ASSUME row[s] \in RunsOf(d) PROVE s \in Free(d)' \ Free(d)
    OBVIOUS
  <2>1. row[s] # 0 /\ Day(runs[row[s]].at) = d
    BY <1>3 DEF RunsOf
  <2>2. row'[s] = 0
    BY DEF Typed
  <2> QED BY <2>1, <2>2 DEF Free
<1>11. c <= c' /\ (row[s] \in RunsOf(d) => c + RunCost <= c')
  BY <1>5, <1>6, <1>9, <1>10, RoomGrows
<1>12. t' <= Cap - 1 + c'
  <2> HIDE DEF t, c, RunCost
  <2>1. \E x \in Nat : t' <= t + x /\ c + x <= c'
    <3>1. CASE row[s] \in RunsOf(d)
      <4>1. t' <= t + RunCost
        BY <1>5, <1>6, <1>7, <1>8
      <4> QED BY <1>7, <1>11, <3>1, <4>1
    <3>2. CASE row[s] \notin RunsOf(d)
      <4>1. t' <= t + 0 /\ c + 0 <= c'
        <5>1. t \in Nat /\ t' = t
          BY <1>6, <1>8, <3>2
        <5>2. c \in Nat /\ c <= c'
          BY <1>6, <1>11
        <5> QED BY <5>1, <5>2
      <4> QED BY <4>1
    <3> QED BY <3>1, <3>2
  <2>2. t \in Nat /\ t' \in Nat /\ c \in Nat /\ c' \in Nat /\ Cap \in Nat
    BY <1>5, <1>6, <1>7
  <2> QED BY <1>1, <2>1, <2>2, StaysInRoom
<1> QED BY <1>12

\* A run begins: on its day what was recorded is still below the cap.
LEMMA SpentBegins ==
  ASSUME Typed, Typed', Spent, NEW s \in Slots, Begins(s)
  PROVE  Spent'
<1> SUFFICES ASSUME NEW d \in Nat PROVE (Total(RunsOf(d)) <= Cap - 1 + Cardinality(Free(d)) * RunCost)'
  BY DEF Spent
<1> DEFINE t == Total(RunsOf(d))
           c == Cardinality(Free(d)) * RunCost
           new == Len(runs) + 1
<1>1. t <= Cap - 1 + c
  BY DEF Spent
<1>2. /\ runs' = Append(runs, [at |-> clock, status |-> "running", cost |-> 0])
      /\ row' = [row EXCEPT ![s] = new] /\ ~CapReached
  BY DEF Begins
<1>3. /\ runs \in Seq(Run) /\ DOMAIN runs = 1 .. Len(runs) /\ Len(runs) \in Nat
      /\ DOMAIN runs' = 1 .. new /\ clock \in Nat
      /\ runs'[new] = [at |-> clock, status |-> "running", cost |-> 0]
      /\ \A i \in 1 .. Len(runs) : runs'[i] = runs[i]
  BY <1>2 DEF Typed
<1>4. t' = Cardinality(Units(runs', RunsOf(d)')) /\ t' \in Nat
      /\ Free(d)' \in SUBSET Slots /\ c' = Cardinality(Free(d)') * RunCost /\ c' \in Nat
  BY NumbersThen DEF RunCost
<1>5. /\ RunsOf(d) \in SUBSET (1 .. Len(runs))
      /\ t = Cardinality(Units(runs, RunsOf(d))) /\ t \in Nat
      /\ Free(d) \in SUBSET Slots /\ c \in Nat
  BY Numbers
<1>6. Cap \in Nat \ {0}
  BY SupervisorConstants
<1>7. RunsOf(d) \subseteq RunsOf(d)' /\ RunsOf(d)' \subseteq RunsOf(d) \cup {new}
      /\ (Day(clock) # d => RunsOf(d)' = RunsOf(d))
  BY <1>3 DEF RunsOf
<1>8. Units(runs', RunsOf(d)') = Units(runs, RunsOf(d))
  <2>1. {new} \X (1 .. runs'[new].cost) = {}
    BY <1>3
  <2>2. \A i \in RunsOf(d) : runs'[i].cost = runs[i].cost
    BY <1>3, <1>5
  <2> HIDE DEF RunsOf, new
  <2> QED BY <1>7, <2>1, <2>2 DEF Units
<1>9. t' = t
  BY <1>4, <1>5, <1>8
<1>10. CASE d = Day(clock)
  <2> DEFINE late == {i \in DOMAIN runs : Day(runs[i].at) > Day(clock - DayLen)}
  <2>1. late \in SUBSET (1 .. Len(runs)) /\ RunsOf(d) \in SUBSET late
    BY <1>3, <1>10, Days DEF RunsOf
  <2>2. Total(late) \in Nat /\ Total(late) < Cap
    <3>1. Total(late) \in Nat
      BY <1>3, <2>1, TotalIsUnits, UnitsFinite
    <3> QED BY <1>2, <1>6, <3>1 DEF CapReached, getCostUsdSince
  <2>3. t <= Total(late)
    BY <1>3, <1>5, <2>1, TotalIsUnits, UnitsPart
  <2>4. t' <= Cap - 1 + c'
    <3>1. t' \in Nat /\ t' = t /\ c' \in Nat
      BY <1>4, <1>9
    <3>2. t' < Cap
      <4>1. t' <= Total(late)
        BY <2>3, <3>1
      <4> HIDE DEF t, late
      <4> QED BY <1>6, <2>2, <3>1, <4>1
    <3>3. Cap \in Nat
      BY <1>6
    <3> HIDE DEF t, c
    <3> QED BY <3>1, <3>2, <3>3, StartsInRoom
  <2> QED BY <2>4
<1>11. CASE d # Day(clock)
  <2>1. Free(d) \subseteq Free(d)'
    <3> SUFFICES ASSUME NEW z \in Slots, row[z] = 0 \/ Day(runs[row[z]].at) # d, row'[z] # 0
                 PROVE  Day(runs'[row'[z]].at) # d
      BY DEF Free
    <3>1. CASE z = s
      <4>1. row'[z] = new
        BY <1>2, <3>1 DEF Typed
      <4> QED BY <1>3, <1>11, <4>1
    <3>2. CASE z # s
      <4>1. row'[z] = row[z] /\ row[z] \in 1 .. Len(runs)
        BY <1>2, <3>2, SMTT(30) DEF Typed
      <4> QED BY <1>3, <4>1
    <3> QED BY <3>1, <3>2
  <2>2. c <= c'
    BY <1>4, <1>5, <2>1, RoomGrows
  <2>3. t' <= Cap - 1 + c'
    <3>1. t \in Nat /\ t' = t /\ c' \in Nat /\ c \in Nat
      BY <1>4, <1>5, <1>9
    <3>2. t' <= t + 0 /\ c + 0 <= c' /\ Cap \in Nat
      <4> HIDE DEF t, c
      <4> QED BY <1>6, <2>2, <3>1
    <3> HIDE DEF t, c
    <3> QED BY <1>1, <3>1, <3>2, StaysInRoom
  <2> QED BY <2>3
<1> QED BY <1>10, <1>11

LEMMA SpentStep == Typed /\ AccFits /\ Spent /\ [Next]_vars => Spent'
<1> SUFFICES ASSUME Typed, AccFits, Spent, [Next]_vars PROVE Spent'
  OBVIOUS
<1>0. Typed'
  BY TypedStep
<1>1. CASE /\ UNCHANGED runs
           /\ \A s \in Slots : row'[s] = row[s] \/ row'[s] = 0
  BY <1>0, <1>1, SpentKept
<1>2. ASSUME NEW s \in Slots, Turn(s) PROVE Spent'
  <2>1. CASE Begins(s)
    BY <1>0, <2>1, SpentBegins
  <2>2. CASE Ends(s)
    <3>1. row' = [row EXCEPT ![s] = 0] /\ row \in [Slots -> Nat]
      BY <2>2 DEF Ends, Leave, Typed
    <3>2. CASE UNCHANGED runs
      BY <1>1, <3>1, <3>2
    <3>3. CASE \E status \in {"ok", "error"}, cost \in 0 .. RunCost : finishRun(s, status, cost)
      BY <1>0, <3>1, <3>3, SpentEnds
    <3> QED BY <2>2, <3>2, <3>3 DEF Ends
  <2>3. CASE GoesOn(s)
    BY <1>1, <2>3 DEF GoesOn
  <2> QED BY <1>2, <2>1, <2>2, <2>3, TurnShape
<1>3. ASSUME NEW s \in Slots, CliDies(s) PROVE Spent'
  BY <1>1, <1>3 DEF CliDies, Dead, db
<1>4. CASE Crash
  BY <1>1, <1>4 DEF Crash, Dead, db
<1>5. CASE Boot
  <2>1. UNCHANGED row
    BY <1>5 DEF Boot, turn
  <2> QED BY <1>0, <1>5, <2>1, Recovered, SpentKept
<1>6. CASE Tick
  <2>1. UNCHANGED <<runs, row>>
    BY <1>6 DEF Tick, turn, db
  <2> QED BY <1>1, <2>1
<1>7. CASE (\E config \in DeployConfigs : DeployNow(config) \/ \E push \in Pushes : PushHook(config, push))
           \/ finishDeploy \/ UNCHANGED vars
  <2>1. UNCHANGED <<runs, row>>
    BY <1>7 DEF DeployNow, PushHook, runDeploy, finishDeploy, vars, turn, db
  <2> QED BY <1>1, <2>1
<1> QED BY <1>2, <1>3, <1>4, <1>5, <1>6, <1>7 DEF Next

LEMMA InRoom ==
  ASSUME Typed, Spent
  PROVE  DayBounded
<1> SUFFICES ASSUME NEW i \in DOMAIN runs
             PROVE  Total(RunsOf(Day(runs[i].at))) <= Cap - 1 + Cardinality(Slots) * RunCost
  BY DEF DayBounded, RunsOf
<1> DEFINE d == Day(runs[i].at)
<1>1. d \in Nat
  <2>1. runs[i] \in Run
    BY DEF Typed
  <2>2. runs[i].at \in Nat
    BY <2>1 DEF Run
  <2> QED BY <2>2, Days
<1> HIDE DEF d
<1> DEFINE t == Total(RunsOf(d))
           c == Cardinality(Free(d)) * RunCost
           all == Cardinality(Slots) * RunCost
<1>2. t <= Cap - 1 + c /\ t \in Nat /\ c \in Nat
  BY <1>1, Numbers DEF Spent
<1>3. c <= all /\ all \in Nat
  <2>1. Free(d) \in SUBSET Slots
    BY DEF Free
  <2> QED BY <2>1, RoomGrows
<1>4. Cap \in Nat
  BY SupervisorConstants
<1>5. t <= Cap - 1 + all
  <2> HIDE DEF t, c, all
  <2> QED BY <1>2, <1>3, <1>4
<1> QED BY <1>5 DEF d

\* DayBounded: what the runs of a day cost is below the cap, but for one run of each slot: those that were
\* under way when the last of them passed checkDailyCostCap, through crashes, boots and midnights.
THEOREM DaysAreBounded == Spec => []DayBounded
<1>1. (Typed /\ AccFits /\ Spent) /\ [Next]_vars => (Typed /\ AccFits /\ Spent)'
  BY TypedStep, SpentStep
<1>2. Typed /\ AccFits /\ Spent => DayBounded
  BY InRoom
<1> QED BY <1>1, <1>2, InitTyped, PTL DEF Spec

-----------------------------------------------------------------------------
(* The rest of the types *)

\* What the guards bound, and that only mimo tries again and only coder and reviewer add costs.
Bounded ==
  /\ clock <= MaxClock /\ Len(runs) <= MaxRuns
  /\ deploys \in Seq({"running", "ok", "error"}) /\ up \in BOOLEAN /\ deploying \in BOOLEAN
  /\ child \in [Slots -> {"works", "termed", "held"}] /\ crashes \in 0 .. MaxCrashes
  /\ \A s \in Slots :
       /\ pc[s] \notin {"coder", "reviewer"} => acc[s] = 0
       /\ pc[s] \in {"anthropic", "claude_code"} => round[s] = 0
       /\ pc[s] = "mimo" => round[s] < Attempts

LEMMA DeploysTyped ==
  ASSUME NEW S, NEW d \in Seq(S), NEW x \in S
  PROVE  [d EXCEPT ![Len(d)] = x] \in Seq(S)
<1>1. [d EXCEPT ![Len(d)] = x] = [i \in 1 .. Len(d) |-> IF i = Len(d) THEN x ELSE d[i]] /\ Len(d) \in Nat
  OBVIOUS
<1>2. \A i \in 1 .. Len(d) : (IF i = Len(d) THEN x ELSE d[i]) \in S
  OBVIOUS
<1>3. [d EXCEPT ![Len(d)] = x] \in [1 .. Len(d) -> S]
  BY <1>1, <1>2
<1> DEFINE n == Len(d)
           e == [d EXCEPT ![Len(d)] = x]
<1>4. n \in Nat /\ e \in [1 .. n -> S]
  BY <1>1, <1>3
<1> HIDE DEF n, e
<1>5. e \in Seq(S)
  BY <1>4
<1> QED BY <1>5 DEF e

LEMMA BoundedTurn ==
  ASSUME Typed, AccFits, Bounded, NEW s \in Slots, Turn(s)
  PROVE  Bounded'
<1>1. \/ StartRun(s) \/ ReviewItem(s)
      \/ UNCHANGED <<clock, deploys, up, deploying, crashes>> /\ (Ends(s) \/ GoesOn(s))
  BY CallEnds, Waits, CoderTurn, ReviewerTurn
     DEF Turn, AnthropicAnswers, MimoAnswers, MimoRetries, MimoExhausted, Aborted,
         AgentAnswers, AgentErrs, TimesOut, KillChild, CoderEnds, ReviewerFails, ReviewerAnswers, Quiet
<1>2. ASSUME NEW kind, NEW override, runJob(s, kind, override) PROVE Bounded'
  <2>1. PICK first : pc' = [pc EXCEPT ![s] = first] /\ pc[s] = "idle"
    BY <1>2 DEF runJob
  <2>2. /\ UNCHANGED <<clock, deploys, up, deploying, acc, round, child, crashes>>
        /\ runs' = Append(runs, [at |-> clock, status |-> "running", cost |-> 0]) /\ Len(runs) < MaxRuns
    BY <1>2 DEF runJob
  <2>3. Len(runs') = Len(runs) + 1 /\ Len(runs) \in Nat
    BY <2>2 DEF Typed
  <2>4. acc[s] = 0 /\ round[s] = 0 /\ 0 < Attempts
    BY <2>1, SupervisorConstants DEF AccFits
  <2>5. Len(runs') <= MaxRuns
    BY <2>2, <2>3, SupervisorConstants
  <2> QED BY <2>1, <2>2, <2>4, <2>5 DEF Typed, Bounded
<1>3. CASE Ends(s) /\ UNCHANGED <<deploys, up, deploying, crashes>>
  <2>1. Len(runs') = Len(runs)
    BY <1>3, Finished DEF Ends
  <2> QED BY <1>3, <2>1 DEF Ends, Leave, Bounded, Typed
<1>4. CASE UNCHANGED <<clock, runs, deploys, up, deploying, crashes>>
  <2> USE <1>4 DEF Bounded
  <2>1. CASE \/ AnthropicAnswers(s) \/ MimoAnswers(s) \/ MimoExhausted(s) \/ Aborted(s)
             \/ AgentAnswers(s) \/ AgentErrs(s) \/ (KillChild(s) /\ ~Holds(s)) \/ ReviewerFails(s)
    <3>1. Leave(s)
      BY <2>1 DEF AnthropicAnswers, MimoAnswers, MimoExhausted, Aborted, AgentAnswers, AgentErrs,
         KillChild, Holds,
                  ReviewerFails, Succeed, Fail
    <3> QED BY <3>1 DEF Leave, Typed
  <2>2. CASE MimoRetries(s)
    <3>1. round' = [round EXCEPT ![s] = @ + 1] /\ round[s] < Attempts - 1 /\ pc[s] = "mimo"
          /\ UNCHANGED <<pc, acc, child>>
      BY <2>2 DEF MimoRetries
    <3>2. round[s] + 1 < Attempts
      <4>1. round[s] \in Nat /\ Attempts \in Nat
        BY SupervisorConstants DEF Typed
      <4> QED BY <3>1, <4>1
    <3> QED BY <3>1, <3>2 DEF Typed
  <2>3. CASE TimesOut(s) \/ Holds(s)
    <3>1. UNCHANGED <<pc, acc, round>> /\ child' \in {[child EXCEPT ![s] = "termed"], [child EXCEPT ![s] = "held"]}
      <4>1. CASE TimesOut(s)
        BY <4>1 DEF TimesOut
      <4>2. CASE Holds(s)
        <5>1. pc' = pc /\ pc[s] # "idle" /\ pc \in [Slots -> PcStates]
          BY <4>2 DEF Holds, KillChild, Process, Typed
        <5>2. ~Leave(s)
          BY <5>1 DEF Leave
        <5> QED BY <4>2, <5>2 DEF Holds, KillChild, Fail
      <4> QED BY <2>3, <4>1, <4>2
    <3> QED BY <3>1 DEF Typed
  <2>4. CASE CoderEnds(s)
    <3>1. CASE Leave(s)
      BY <3>1 DEF Leave, Typed
    <3>2. CASE ~Leave(s)
      BY <2>4, <3>2 DEF CoderEnds, Succeed, Typed
    <3> QED BY <3>1, <3>2
  <2>5. CASE ReviewerAnswers(s)
    <3>1. CASE Leave(s)
      BY <3>1 DEF Leave, Typed
    <3>2. CASE ~Leave(s)
      BY <2>5, <3>2 DEF ReviewerAnswers, Succeed, Typed
    <3> QED BY <3>1, <3>2
  <2>6. CASE StartRun(s) \/ ReviewItem(s)
    BY <2>6, <1>2 DEF StartRun, ReviewItem
  <2> QED BY <2>1, <2>2, <2>3, <2>4, <2>5, <2>6 DEF Turn
<1>5. CASE StartRun(s) \/ ReviewItem(s)
  BY <1>2, <1>5 DEF StartRun, ReviewItem
<1> QED BY <1>1, <1>3, <1>4, <1>5 DEF GoesOn

LEMMA BoundedStep == Typed /\ AccFits /\ Bounded /\ [Next]_vars => Bounded'
<1> SUFFICES ASSUME Typed, AccFits, Bounded, [Next]_vars PROVE Bounded'
  OBVIOUS
<1>1. ASSUME NEW s \in Slots, Turn(s) PROVE Bounded'
  BY <1>1, BoundedTurn
<1>2. ASSUME NEW S, Dead(S) PROVE /\ child' \in [Slots -> {"works", "termed", "held"}]
                                 /\ \A s \in Slots :
                                      /\ pc'[s] \notin {"coder", "reviewer"} => acc'[s] = 0
                                      /\ pc'[s] \in {"anthropic", "claude_code"} => round'[s] = 0
                                      /\ pc'[s] = "mimo" => round'[s] < Attempts
  BY <1>2 DEF Dead, Bounded
<1>3. ASSUME NEW s \in Slots, CliDies(s) PROVE Bounded'
  BY <1>2, <1>3, SupervisorConstants DEF CliDies, Bounded, db
<1>4. CASE Crash
  <2>1. Dead(Daemon) /\ UNCHANGED <<clock, runs, deploys>> /\ up' = FALSE /\ deploying' = FALSE
        /\ crashes' = crashes + 1 /\ crashes < MaxCrashes
    BY <1>4 DEF Crash, db
  <2>2. crashes' \in 0 .. MaxCrashes
    BY <2>1, SupervisorConstants DEF Bounded
  <2> QED BY <1>2, <2>1, <2>2 DEF Bounded
<1>5. CASE Boot
  <2>1. UNCHANGED <<clock, deploying, pc, acc, round, child, crashes>> /\ up' = TRUE
    BY <1>5 DEF Boot, turn
  <2>2. Len(runs') = Len(runs)
    BY <1>5, Recovered
  <2>3. deploys' \in Seq({"running", "ok", "error"})
    <3>1. deploys' = [i \in DOMAIN deploys |-> IF deploys[i] = "running" THEN "error" ELSE deploys[i]]
      BY <1>5 DEF Boot
    <3>2. DOMAIN deploys = 1 .. Len(deploys) /\ Len(deploys) \in Nat
          /\ \A i \in 1 .. Len(deploys) : deploys[i] \in {"running", "ok", "error"}
      BY DEF Bounded
    <3> QED BY <3>1, <3>2
  <2> QED BY <2>1, <2>2, <2>3 DEF Bounded
<1>6. CASE Tick
  BY <1>6, SupervisorConstants DEF Tick, Bounded, Typed, db, turn
<1>7. CASE finishDeploy
  <2>1. PICK status \in {"ok", "error"} : deploys' = [deploys EXCEPT ![Len(deploys)] = status]
    BY <1>7 DEF finishDeploy
  <2>2. deploys' \in Seq({"running", "ok", "error"})
    BY <2>1, DeploysTyped DEF Bounded
  <2> QED BY <1>7, <2>2 DEF finishDeploy, Bounded, turn
<1>8. ASSUME NEW config, runDeploy(config) PROVE Bounded'
  <2>1. deploys' = Append(deploys, "error") \/ deploys' = Append(deploys, "running")
    BY <1>8 DEF runDeploy
  <2>2. deploys' \in Seq({"running", "ok", "error"})
    BY <2>1 DEF Bounded
  <2>3. deploying' \in BOOLEAN /\ UNCHANGED <<clock, runs, up, pc, acc, round, child, crashes>>
    BY <1>8 DEF runDeploy, Bounded, turn
  <2> QED BY <2>2, <2>3 DEF Bounded
<1>9. CASE UNCHANGED vars
  BY <1>9 DEF vars, db, turn, Bounded
<1> QED BY <1>1, <1>3, <1>4, <1>5, <1>6, <1>7, <1>8, <1>9 DEF Next, DeployNow, PushHook

\* TypeOK: no run costs more than RunCost, no slot tries more often than fetchWithRetry and the critique do.
THEOREM TypeCorrect == Spec => []TypeOK
<1>1. Init => Typed /\ AccFits /\ Bounded
  <2>1. Init => Bounded
    <3>1. 0 <= MaxClock /\ 0 <= MaxRuns /\ 0 \in 0 .. MaxCrashes
      BY SupervisorConstants
    <3>2. Len(<<>>) = 0 /\ <<>> \in Seq({"running", "ok", "error"})
      OBVIOUS
    <3> QED BY <3>1, <3>2 DEF Init, Bounded
  <2> QED BY <2>1, InitTyped
<1>2. Typed /\ AccFits /\ Bounded /\ [Next]_vars => (Typed /\ AccFits /\ Bounded)'
  BY TypedStep, BoundedStep
<1>3. Typed /\ AccFits /\ Bounded => TypeOK
  <2> SUFFICES ASSUME Typed, AccFits, Bounded PROVE TypeOK
    OBVIOUS
  <2>1. runs \in Seq([at : 0 .. MaxClock, status : {"running", "ok", "error"}, cost : 0 .. RunCost])
    <3>1. /\ DOMAIN runs = 1 .. Len(runs) /\ Len(runs) \in Nat /\ runs = [i \in 1 .. Len(runs) |-> runs[i]]
          /\ \A i \in 1 .. Len(runs) : runs[i] \in Run /\ runs[i].at <= clock
      BY DEF Typed
    <3>2. \A i \in 1 .. Len(runs) :
            runs[i] \in [at : 0 .. MaxClock, status : {"running", "ok", "error"}, cost : 0 .. RunCost]
      <4> HIDE DEF RunCost
      <4> SUFFICES ASSUME NEW i \in 1 .. Len(runs)
                   PROVE  runs[i] \in [at : 0 .. MaxClock, status : {"running", "ok", "error"}, cost : 0 .. RunCost]
        OBVIOUS
      <4>1. clock \in Nat /\ clock <= MaxClock /\ MaxClock \in Nat
        BY SupervisorConstants DEF Bounded, Typed
      <4>2. runs[i] \in Run /\ runs[i].at \in 0 .. MaxClock
        BY <3>1, <4>1 DEF Run
      <4> QED BY <4>2 DEF Run
    <3> DEFINE R == [at : 0 .. MaxClock, status : {"running", "ok", "error"}, cost : 0 .. RunCost]
    <3>3. \A i \in 1 .. Len(runs) : runs[i] \in R
      BY <3>2
    <3> HIDE DEF R
    <3>4. runs \in Seq(R)
      BY <3>1, <3>3
    <3> QED BY <3>4 DEF R
  <2>2. ASSUME NEW s \in Slots
        PROVE  acc[s] \in 0 .. RunCost /\ round[s] \in 0 .. MaxCritique + Attempts
    <3> HIDE DEF RunCost
    <3>1. /\ acc[s] \in Nat /\ round[s] \in Nat /\ MaxCritique \in Nat /\ Attempts \in Nat
          /\ RunCost \in Nat /\ MaxCost \in Nat
      BY SupervisorConstants, RunCostBounds DEF Typed
    <3>2. CASE pc[s] \in {"coder", "reviewer"}
      <4>1. round[s] <= MaxCritique /\ acc[s] <= round[s] * 2 * MaxCost + MaxCost
        BY <3>1, <3>2, SupervisorConstants DEF AccFits
      <4>2. round[s] * 2 * MaxCost \in Nat
        BY <3>1
      <4>3. round[s] * 2 * MaxCost + MaxCost + MaxCost <= RunCost
        BY <3>1, <4>1, RunCostBounds
      <4>4. acc[s] <= RunCost
        BY <3>1, <4>1, <4>2, <4>3
      <4> QED BY <3>1, <4>1, <4>4
    <3>3. CASE pc[s] \notin {"coder", "reviewer"}
      <4>1. pc[s] \in {"idle", "mimo", "claude_code", "anthropic"}
        BY <3>3 DEF Typed, PcStates, Engines
      <4>2. acc[s] = 0 /\ round[s] <= Attempts
        BY <3>1, <4>1 DEF AccFits, Bounded
      <4> QED BY <3>1, <4>2
    <3> QED BY <3>2, <3>3
  <2>3. row \in [Slots -> 0 .. MaxRuns]
    BY SupervisorConstants DEF Typed, Bounded
  <2> QED BY <2>1, <2>2, <2>3, SupervisorConstants DEF TypeOK, Typed, Bounded, PcStates
<1> QED BY <1>1, <1>2, <1>3, PTL DEF Spec

=============================================================================
