------------------------------- MODULE Schema -------------------------------
(***************************************************************************)
(* The migrations of the database (storage/db.ts): what each one adds, in  *)
(* which order they are tried, and what a database becomes by them.        *)
(*                                                                         *)
(* A table, with its indexes, is <<name, "table">>, a column added later   *)
(* <<table, column>>; columns added together are one.                      *)
(***************************************************************************)
EXTENDS Naturals

VARIABLES
  schema,   \* of the database: the version recorded, and what is there
  found     \* history: what it was before this build

database == <<schema, found>>

Latest == 21

\* The statements of the versions: 1 to 4,
QueueVersions == <<
  {<<"repos", "table">>, <<"tasks", "table">>, <<"runs", "table">>},
  {<<"tasks", "priority_next_due_at_last_error">>, <<"webhook_secrets", "table">>},
  {<<"pr_branches", "table">>},
  {<<"deploys", "table">>, <<"tasks", "source">>} >>

\* 5 to 11, with the repair of 4; the last one changes data only,
LaneVersions == <<
  {<<"runs", "prompt_log_path">>},
  {<<"runs", "indexes">>},
  {<<"pr_branches", "conflict_resolutions_count">>},
  {<<"pr_branches", "last_error">>},
  {<<"deploys", "table">>},
  {<<"admin_audit", "table">>},
  {} >>

\* 12 to 16,
DirectorVersions == <<
  {<<"director_messages", "table">>, <<"director_decisions", "table">>,
   <<"director_charter_versions", "table">>, <<"director_budget_state", "table">>},
  {<<"director_budget_history", "table">>},
  {<<"director_active_ticks", "table">>},
  {<<"director_decisions", "payload_hash">>},
  {<<"director_budget_state", "last_digest_date">>} >>

\* 17 to 21.
LaterVersions == <<
  {<<"director_notes", "table">>},
  {<<"director_decisions", "trace">>},
  {<<"director_outcome_followups", "table">>},
  {<<"director_budget_state", "digest_retries">>},
  {<<"repos", "hidden">>} >>

Adds == [v \in 1 .. Latest |->
  CASE v \in 1 .. 4   -> QueueVersions[v]
    [] v \in 5 .. 11  -> LaneVersions[v - 4]
    [] v \in 12 .. 16 -> DirectorVersions[v - 11]
    [] v \in 17 .. 21 -> LaterVersions[v - 16]]

\* CREATE ... IF NOT EXISTS.
IfMissing == {6, 9, 10}

\* Where a version stands in the source: 19 before 18.
Place(v) == CASE v = 18 -> 19 [] v = 19 -> 18 [] OTHER -> v

Everything == UNION {Adds[v] : v \in 1..Latest}

\* What a database has still to go through: the versions above the highest one recorded.
Due(db) == db.version + 1 .. Latest

\* What is there when the turn of a version comes.
Present(db, v) == db.objects \cup UNION {Adds[w] : w \in {u \in Due(db) : Place(u) < Place(v)}}

\* A statement fails on what exists, and on a column of a table that does not.
Fails(db, v) ==
  LET here == Present(db, v)
      new == IF v \in IfMissing THEN Adds[v] \ here ELSE Adds[v]
  IN new \cap here # {} \/ \E x \in new : <<x[1], "table">> \notin here \cup new

\* applyMigrationsInner does not throw.
Migrates(db) == \A v \in Due(db) : ~Fails(db, v)

\* The versions above the one recorded at the start, and their numbers.
applyMigrations(db) ==
  [version |-> Latest, objects |-> db.objects \cup UNION {Adds[v] : v \in Due(db)}]

Whole == [version |-> Latest, objects |-> Everything]

Upto(n) == UNION {Adds[v] : v \in 1..n}

\* Databases of every version so far, and those that had passed the fourth when it did not make
\* the deploys table yet.
ReleasedDatabases ==
  {[version |-> n, objects |-> Upto(n)] : n \in 0..Latest}
  \cup {[version |-> n, objects |-> Upto(n) \ {<<"deploys", "table">>}] : n \in 4..8}

\* What the rollout of 14 and 15 left, when migrations were no transaction yet: a version that
\* was done and not recorded.
HalfApplied == {[version |-> v - 1, objects |-> Upto(v)] : v \in {14, 15}}

\* Databases that recorded 19 before there was an 18.
SkippedTrace == {[version |-> n, objects |-> Upto(n) \ Adds[18]] : n \in 19..Latest}

Traceless == [version |-> Latest, objects |-> Everything \ Adds[18]]

\* Databases that are about.
HistoricDatabases == ReleasedDatabases \cup HalfApplied \cup SkippedTrace

\* On a database of any release, whatever process starts next and wherever the one before died,
\* it gets through the migrations to the whole schema (docs/DIRECTOR.md "Atomic migrations",
\* and the repair of version 4 by version 9).  A database without 18 gets through, and stays
\* without; one that was left half-applied is beyond what any start can do.
SchemaSound ==
  /\ found \in ReleasedDatabases => Migrates(schema) /\ applyMigrations(schema) = Whole
  /\ found \in SkippedTrace => Migrates(schema) /\ applyMigrations(schema) = Traceless
  /\ found \in HalfApplied => ~Migrates(schema)
=============================================================================
