---------------------------- MODULE MCRepoConfig ----------------------------
(***************************************************************************)
(* An instance of RepoConfig: a database of version 6, from before version *)
(* 4 made the deploys table, and one that the rollout of version 14 left   *)
(* half-applied.                                                           *)
(***************************************************************************)
EXTENDS RepoConfig

SomeDatabases ==
  {db \in ReleasedDatabases : db.version = 6 /\ <<"deploys", "table">> \notin db.objects}
  \cup {db \in HalfApplied : db.version = 13}

\* All the others, those that have 19 and not 18 among them, without the processes around them.
ASSUME EveryDatabaseMigrates ==
  /\ \A db \in ReleasedDatabases : Migrates(db) /\ applyMigrations(db) = Whole
  /\ \A db \in SkippedTrace : Migrates(db) /\ applyMigrations(db) = Traceless
  /\ \A db \in HalfApplied : ~Migrates(db)
=============================================================================
