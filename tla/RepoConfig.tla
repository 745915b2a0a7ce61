----------------------------- MODULE RepoConfig -----------------------------
(***************************************************************************)
(* The configuration of one repo, in its four places: the YAML file, the   *)
(* memory of the daemon and of the director, and the row of the repos      *)
(* table; and the database's schema, which every process migrates before   *)
(* it uses it (config/loader.ts, storage/repos.ts, storage/db.ts,          *)
(* index.ts, director/index.ts, cli/index.ts, server/admin.ts).            *)
(*                                                                         *)
(* The file is read and the row is written in one turn of a process, but   *)
(* other processes come between.  An operator edits files by hand, through *)
(* the admin pages of the daemon and with the command line.                *)
(***************************************************************************)
EXTENDS Schema

CONSTANTS
  Main, Director,
  NoFile, NoRow, NotRead,
  OldSchemas,  \* the databases to start with
  MaxEvents    \* bound on what operators do and on processes that die

Procs == {Main, Director}

ASSUME RepoConfigConstants ==
  /\ Main # Director /\ NoFile # NotRead
  /\ MaxEvents \in Nat
  /\ OldSchemas \subseteq HistoricDatabases

VARIABLES
  file,     \* the YAML file, or NoFile
  torn,     \* it cannot be parsed: half written, or wrong
  global,   \* openronin.yaml is valid
  row,      \* of the repos table, or NoRow
  lastId,   \* AUTOINCREMENT
  pc,       \* of a process: "down", then loading the configuration, migrating and syncing
            \* until it is "up"; "reloading" between the two halves of a reload
  mem,      \* what a process knows of the repo
  event,    \* the watcher's timer is set
  round,    \* the daemon is in a reconcile round that found the repo watched
  purging,  \* the id a purge is to delete, while it waits for the forge; 0 else
  cli,      \* what a command-line sync has read and not written yet
  \* history
  missed,   \* the files changed while the process was starting, and not since
  manual,   \* the row's watched was set by hand since the last sync
  stale,    \* the last sync wrote what the file said no more
  events

disk == <<file, torn, global>>
table == <<row, lastId, manual, stale>>
mind == <<pc, mem, event, missed>>
vars == <<database, disk, table, mind, round, purging, cli, events>>

Contents == [watched : BOOLEAN, hidden : BOOLEAN]

Init ==
  /\ schema \in OldSchemas /\ found = schema
  /\ file = [watched |-> TRUE, hidden |-> FALSE] /\ torn = FALSE /\ global = TRUE
  /\ row = NoRow /\ lastId = 0 /\ manual = FALSE /\ stale = FALSE
  /\ pc = [p \in Procs |-> "down"] /\ mem = [p \in Procs |-> NoFile]
  /\ event = [p \in Procs |-> FALSE] /\ missed = [p \in Procs |-> FALSE]
  /\ round = FALSE /\ purging = 0 /\ cli = NotRead
  /\ events = 0

Event == events < MaxEvents /\ events' = events + 1

----------------------------------------------------------------------------
(* Reading the file and writing the row *)

\* readRepoConfigs: a file that cannot be read is skipped.
Read == IF torn THEN NoFile ELSE file

\* (mutant) Rows that are not in the configuration are left as they are.
SyncedPresent(r, c) ==
  IF c = NoFile THEN r
  ELSE [id |-> IF r = NoRow THEN lastId + 1 ELSE r.id, watched |-> c.watched, hidden |-> c.hidden]

\* syncReposFromConfig: insert or overwrite; a row without a file is not watched.
Synced(r, c) ==
  IF c = NoFile THEN IF r = NoRow THEN r ELSE [r EXCEPT !.watched = FALSE]
  ELSE [id |-> IF r = NoRow THEN lastId + 1 ELSE r.id, watched |-> c.watched, hidden |-> c.hidden]

Sync(r, c, now) ==
  /\ row' = Synced(r, c)
  /\ lastId' = IF r = NoRow /\ c # NoFile THEN lastId + 1 ELSE lastId
  /\ manual' = FALSE /\ stale' = (c # now)

----------------------------------------------------------------------------
(* Processes: main (index.ts) and runDirectorService start the same way. *)

Load(p) ==
  /\ pc[p] = "down" /\ global
  /\ mem' = [mem EXCEPT ![p] = Read] /\ pc' = [pc EXCEPT ![p] = "migrating"]
  /\ UNCHANGED <<database, disk, table, event, missed, round, purging, cli, events>>

\* It throws: the process exits, and systemd starts the next one.
MigrationThrows(p) ==
  /\ ~Migrates(schema) /\ UNCHANGED schema
  /\ pc' = [pc EXCEPT ![p] = "down"] /\ mem' = [mem EXCEPT ![p] = NoFile]
  /\ missed' = [missed EXCEPT ![p] = FALSE]

\* (mutant) Without a transaction: a process that dies after the statements of a version has
\* not recorded it.
MigratePiecemeal(p) ==
  /\ pc[p] = "migrating"
  /\ \/ /\ Migrates(schema) /\ schema' = applyMigrations(schema)
        /\ pc' = [pc EXCEPT ![p] = "syncing"] /\ UNCHANGED <<mem, missed>>
     \/ /\ schema.version < Latest
        /\ schema' = [schema EXCEPT !.objects = @ \cup Adds[schema.version + 1]]
        /\ pc' = [pc EXCEPT ![p] = "down"] /\ UNCHANGED <<mem, missed>>
     \/ MigrationThrows(p)
  /\ UNCHANGED <<found, disk, table, event, round, purging, cli, events>>

\* One IMMEDIATE transaction: the other processes wait, and one that dies or fails changes
\* nothing.
Migrate(p) ==
  /\ pc[p] = "migrating"
  /\ \/ /\ Migrates(schema) /\ schema' = applyMigrations(schema)
        /\ pc' = [pc EXCEPT ![p] = "syncing"] /\ UNCHANGED <<mem, missed>>
     \/ MigrationThrows(p)
  /\ UNCHANGED <<found, disk, table, event, round, purging, cli, events>>

\* The watcher is there only now.
Started(p) ==
  /\ pc[p] = "syncing"
  /\ Sync(row, mem[p], Read)
  /\ pc' = [pc EXCEPT ![p] = "up"]
  /\ UNCHANGED <<database, disk, mem, event, missed, round, purging, cli, events>>

\* A file has changed: the timers are set, or set again.
Changed ==
  /\ event' = [p \in Procs |-> event[p] \/ pc[p] \in {"up", "reloading"}]
  /\ missed' = [p \in Procs |-> missed[p] \/ pc[p] \in {"migrating", "syncing"}]

\* The timer goes off.  A broken openronin.yaml makes loadConfig throw: nothing changes.
Reload(p) ==
  /\ pc[p] = "up" /\ event[p]
  /\ event' = [event EXCEPT ![p] = FALSE]
  /\ IF global
       THEN /\ mem' = [mem EXCEPT ![p] = Read] /\ pc' = [pc EXCEPT ![p] = "reloading"]
            /\ missed' = [missed EXCEPT ![p] = FALSE]
       ELSE UNCHANGED <<mem, pc, missed>>
  /\ UNCHANGED <<database, disk, table, round, purging, cli, events>>

Reloaded(p) ==
  /\ pc[p] = "reloading"
  /\ Sync(row, mem[p], Read)
  /\ pc' = [pc EXCEPT ![p] = "up"]
  /\ UNCHANGED <<database, disk, mem, event, missed, round, purging, cli, events>>

Dies(p) ==
  /\ pc[p] # "down" /\ Event
  /\ pc' = [pc EXCEPT ![p] = "down"] /\ mem' = [mem EXCEPT ![p] = NoFile]
  /\ event' = [event EXCEPT ![p] = FALSE] /\ missed' = [missed EXCEPT ![p] = FALSE]
  /\ IF p = Main THEN round' = FALSE /\ purging' = 0 ELSE UNCHANGED <<round, purging>>
  /\ UNCHANGED <<database, disk, table, cli>>

----------------------------------------------------------------------------
(* The command line: repo:add and repo:sync.  It migrates like the others, or throws. *)

CliAdd ==
  /\ Event /\ file = NoFile
  /\ file' = [watched |-> TRUE, hidden |-> FALSE] /\ torn' = FALSE
  /\ Changed
  /\ UNCHANGED <<database, global, table, pc, mem, round, purging, cli>>

CliLoad ==
  /\ Event /\ cli = NotRead /\ global
  /\ Migrates(schema) /\ schema' = applyMigrations(schema)
  /\ cli' = Read
  /\ UNCHANGED <<found, disk, table, mind, round, purging>>

CliSync ==
  /\ cli # NotRead
  /\ Sync(row, cli, Read) /\ cli' = NotRead
  /\ UNCHANGED <<database, disk, mind, round, purging, events>>

----------------------------------------------------------------------------
(* An operator at the files: an editor writes twice, so a reload may see half of it. *)

EditFile ==
  /\ Event
  /\ \E c \in Contents \cup {NoFile} : file' = c
  /\ torn' \in BOOLEAN /\ (file' = NoFile => ~torn')
  /\ Changed
  /\ UNCHANGED <<database, global, table, pc, mem, round, purging, cli>>

WriteEnds ==
  /\ torn /\ torn' = FALSE
  /\ Changed
  /\ UNCHANGED <<database, file, global, table, pc, mem, round, purging, cli, events>>

\* By hand, or through the settings page, which checks that it is YAML and no more.
EditGlobal ==
  /\ Event /\ global' = ~global
  /\ Changed
  /\ UNCHANGED <<database, file, torn, table, pc, mem, round, purging, cli>>

----------------------------------------------------------------------------
(* The admin pages: turns of the daemon *)

Serving == pc[Main] = "up"

\* reloadConfig and the sync of a request; the answer is an error when openronin.yaml is broken.
ForceSync(r) ==
  IF global THEN Sync(r, IF torn' THEN NoFile ELSE file', IF torn' THEN NoFile ELSE file')
  ELSE row' = r /\ UNCHANGED <<lastId, manual, stale>>

\* What is written is the configuration in memory with the flag set; memory is left as it is.
Hide ==
  /\ Serving /\ Event
  /\ row # NoRow /\ ~row.hidden /\ mem[Main] # NoFile
  /\ file' = [mem[Main] EXCEPT !.hidden = TRUE] /\ torn' = FALSE
  /\ ForceSync(row) /\ Changed
  /\ UNCHANGED <<database, global, pc, mem, round, purging, cli>>

AddRepo ==
  /\ Serving /\ Event /\ file = NoFile
  /\ file' = [watched |-> TRUE, hidden |-> FALSE] /\ torn' = FALSE
  /\ ForceSync(row) /\ Changed
  /\ UNCHANGED <<database, global, pc, mem, round, purging, cli>>

Listed == row # NoRow /\ ~row.hidden

SaveYaml ==
  /\ Serving /\ Event /\ Listed
  /\ file' \in Contents /\ torn' = FALSE
  /\ Changed
  /\ UNCHANGED <<database, global, table, pc, mem, round, purging, cli>>

\* Pause and resume of a repo: the row alone.
SetWatched(w) ==
  /\ Serving /\ Event /\ Listed
  /\ row' = [row EXCEPT !.watched = w] /\ manual' = TRUE
  /\ UNCHANGED <<database, disk, lastId, stale, mind, round, purging, cli>>

\* Only a hidden repo; then the forge is asked to delete the webhook.
Purge ==
  /\ Serving /\ Event /\ purging = 0
  /\ row # NoRow /\ row.hidden
  /\ purging' = row.id
  /\ UNCHANGED <<database, disk, table, mind, round, cli>>

\* Nothing is looked at again.
PurgeEnds ==
  /\ Serving /\ purging # 0
  /\ purging' = 0
  /\ file' = NoFile /\ torn' = FALSE
  /\ ForceSync(IF row # NoRow /\ row.id = purging THEN NoRow ELSE row)
  /\ IF file = NoFile THEN UNCHANGED <<event, missed>> ELSE Changed
  /\ UNCHANGED <<database, global, pc, mem, round, cli, events>>

----------------------------------------------------------------------------
(* The scheduler, with the configuration it had at the start of the round *)

StartRound ==
  /\ Serving /\ ~round
  /\ mem[Main] # NoFile /\ mem[Main].watched /\ ~mem[Main].hidden
  /\ round' = TRUE
  /\ UNCHANGED <<database, disk, table, mind, purging, cli, events>>

\* ensureRepo: a repo without a row gets one that is not watched.
ReconcileRepo ==
  /\ Serving /\ round
  /\ round' = FALSE
  /\ IF row = NoRow
       THEN row' = [id |-> lastId + 1, watched |-> FALSE, hidden |-> FALSE] /\ lastId' = lastId + 1
       ELSE UNCHANGED <<row, lastId>>
  /\ UNCHANGED <<database, disk, manual, stale, mind, purging, cli, events>>

Next ==
  \/ \E p \in Procs : Load(p) \/ Migrate(p) \/ Started(p) \/ Reload(p) \/ Reloaded(p) \/ Dies(p)
  \/ CliAdd \/ CliLoad \/ CliSync
  \/ EditFile \/ WriteEnds \/ EditGlobal
  \/ Hide \/ AddRepo \/ SaveYaml \/ (\E w \in BOOLEAN : SetWatched(w)) \/ Purge \/ PurgeEnds
  \/ StartRound \/ ReconcileRepo

Spec == Init /\ [][Next]_vars

\* systemd starts the processes, the watchers' timers go off, synchronous code goes on.
FairSpec ==
  /\ Spec
  /\ \A p \in Procs : WF_vars(Load(p)) /\ WF_vars(Migrate(p)) /\ WF_vars(Started(p))
                      /\ WF_vars(Reload(p)) /\ WF_vars(Reloaded(p))

----------------------------------------------------------------------------
\* What a process makes of the file.
Follows(p) == pc[p] = "up" /\ mem[p] = Read

\* And what the row does.
RowFollows ==
  IF Read = NoFile THEN row = NoRow \/ ~row.watched
  ELSE row # NoRow /\ row.watched = Read.watched /\ row.hidden = Read.hidden

\* When the operators leave the files alone, both processes come to know what they say, and so
\* does the row, through torn files, forced syncs, purges, rounds of reconcile and crashes.
\* Not when a file changed while a process was starting (it watches only later), nor when a
\* sync of the command line or of a start wrote what it had read before the last change; nor on
\* a database no start gets through.
Converges ==
  /\ \A p \in Procs : <>[](global /\ Migrates(schema) => missed[p] \/ Follows(p))
  /\ <>[](global /\ Migrates(schema) => manual \/ stale \/ (\E p \in Procs : missed[p]) \/ RowFollows)
=============================================================================
