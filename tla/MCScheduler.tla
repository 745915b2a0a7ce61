---------------------------- MODULE MCScheduler ----------------------------
(* Small instances of Scheduler for TLC. *)
EXTENDS Scheduler

OneRepo  == [t \in Tasks |-> CHOOSE r \in Repos : TRUE]

\* Tasks 1 and 2 in different repos.
TwoRepos ==
  LET first == CHOOSE r \in Repos : TRUE IN
  [t \in Tasks |-> IF t = 1 THEN first ELSE CHOOSE r \in Repos : r # first]

=============================================================================
