----------------------------- MODULE TaskLease -----------------------------
(***************************************************************************)
(* What the scheduler promises about its tasks, with no word of repos,     *)
(* priorities, timers or processes: a queued task is leased to one worker  *)
(* at a time; whatever happens to the queue while a lease lasts, nobody    *)
(* else gets the task; the leases end together when the service crashes,   *)
(* and the tasks they leave "working" are queued or given up by a recovery *)
(* that no lease survives.                                                 *)
(***************************************************************************)
CONSTANTS Tasks, Workers, None

VARIABLES
  mark,   \* what the table says of a task: "out", "queued" or "working"
  lease   \* the worker at work on a task, or None

leaseVars == <<mark, lease>>

Init ==
  /\ mark = [t \in Tasks |-> "out"]
  /\ lease = [t \in Tasks |-> None]

\* Tasks are queued, leased or not.
Submit ==
  \E S \in SUBSET Tasks :
    /\ mark' = [t \in Tasks |-> IF t \in S THEN "queued" ELSE mark[t]]
    /\ UNCHANGED lease

\* A task is taken out of the queue, leased or not.
Withdraw(t) ==
  /\ mark' = [mark EXCEPT ![t] = "out"]
  /\ UNCHANGED lease

Start(t, w) ==
  /\ mark[t] = "queued" /\ lease[t] = None
  /\ \A u \in Tasks : lease[u] # w
  /\ mark' = [mark EXCEPT ![t] = "working"]
  /\ lease' = [lease EXCEPT ![t] = w]

Finish(t) ==
  /\ lease[t] # None
  /\ lease' = [lease EXCEPT ![t] = None]
  /\ \E m \in {"out", "queued"} : mark' = [mark EXCEPT ![t] = m]

\* At most one worker got as far as taking its own task out.
Crash ==
  /\ lease' = [t \in Tasks |-> None]
  /\ \/ mark' = mark
     \/ \E t \in Tasks : lease[t] # None /\ mark' = [mark EXCEPT ![t] = "out"]

Recover ==
  /\ \A t \in Tasks : lease[t] = None
  /\ \E S \in SUBSET Tasks :
       mark' = [t \in Tasks |-> IF mark[t] # "working" THEN mark[t]
                                ELSE IF t \in S THEN "queued" ELSE "out"]
  /\ UNCHANGED lease

Next ==
  \/ Submit \/ Crash \/ Recover
  \/ \E t \in Tasks : Withdraw(t) \/ Finish(t) \/ \E w \in Workers : Start(t, w)

Spec == Init /\ [][Next]_leaseVars
=============================================================================
