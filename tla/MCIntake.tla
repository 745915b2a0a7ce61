------------------------------ MODULE MCIntake ------------------------------
(***************************************************************************)
(* An instance of Intake.                                                  *)
(***************************************************************************)
EXTENDS Intake

CONSTANTS t1, t2, g, l, d

Sources == [i \in Others |-> CASE i = g -> "github" [] i = l -> "gitlab" [] i = d -> "todoist"]
=============================================================================
