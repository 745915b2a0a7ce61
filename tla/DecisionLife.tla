---------------------------- MODULE DecisionLife ----------------------------
(***************************************************************************)
(* What the table of decisions promises about each of them, with no word   *)
(* of ticks, operators, processes, gates or retries: a decision that waits *)
(* is refused before the forge was ever asked, or the forge is asked for   *)
(* its calls, each of them once; "executed" is said when all are done, and *)
(* what is said then stays.  A decision that waits too long expires, in    *)
(* the midst of its calls it may be, and they can still end.               *)
(***************************************************************************)
EXTENDS Naturals

CONSTANT Decisions

VARIABLES
  outcome,  \* what the table says of a decision
  calls,    \* how many calls to the forge carry it out
  done      \* how many calls the forge has done for it

lifeVars == <<outcome, calls, done>>

Init ==
  /\ outcome = [d \in Decisions |-> "absent"]
  /\ calls = [d \in Decisions |-> 0]
  /\ done = [d \in Decisions |-> 0]

Becoming(d, o) == outcome' = [outcome EXCEPT ![d] = o] /\ UNCHANGED <<calls, done>>

\* Decisions are recorded, and wait.
Record ==
  /\ \E new \in [Decisions -> {"absent", "pending"}], take \in [Decisions -> 0 .. 2] :
       /\ outcome' = [d \in Decisions |-> IF outcome[d] = "absent" THEN new[d] ELSE outcome[d]]
       /\ calls' = [d \in Decisions |-> IF outcome[d] = "absent" THEN take[d] ELSE calls[d]]
  /\ UNCHANGED done

Refuse(d) ==
  /\ outcome[d] = "pending" /\ done[d] = 0
  /\ \E o \in {"rejected", "skipped", "dry_run"} : Becoming(d, o)

Expire ==
  \E S \in SUBSET {d \in Decisions : outcome[d] = "pending"} :
    /\ outcome' = [d \in Decisions |-> IF d \in S THEN "expired" ELSE outcome[d]]
    /\ UNCHANGED <<calls, done>>

Open(d) == outcome[d] \in {"pending", "expired"}

Call(d) ==
  /\ Open(d) /\ done[d] < calls[d]
  /\ done' = [done EXCEPT ![d] = @ + 1]
  /\ UNCHANGED <<outcome, calls>>

Execute(d) == Open(d) /\ done[d] = calls[d] /\ Becoming(d, "executed")

Fail(d) == Open(d) /\ Becoming(d, "failed")

Next ==
  \/ Record \/ Expire
  \/ \E d \in Decisions : Refuse(d) \/ Call(d) \/ Execute(d) \/ Fail(d)

Spec == Init /\ [][Next]_lifeVars
=============================================================================
