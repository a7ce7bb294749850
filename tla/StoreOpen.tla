------------------------------ MODULE StoreOpen ------------------------------
(***************************************************************************)
(* Opening memory.db (src/store/memory-store.ts, schema.ts): integrity     *)
(* check, once-a-day backup, migrations, and the checkpoint of a close.    *)
(*                                                                         *)
(* A commit is a number and touches the two pages of the database file,    *)
(* one of the rows and one of the indexes over them.  Commits go to the    *)
(* write-ahead log; a checkpoint carries them into the pages, and the      *)
(* backup copies the pages while other processes go on.                    *)
(***************************************************************************)
EXTENDS Naturals, FiniteSets

CONSTANTS
  Process,    \* processes that open the store
  Id, Key,    \* ids of the legacy rows, and (session, content, source) keys
  MaxCommit   \* bound: commits made after the store exists

Current == 6            \* CURRENT_SCHEMA_VERSION
Dedupe == 5             \* the migration that makes content hashes unique
Legacy == {4, 6}        \* schemas a store may start from
Page == {"rows", "index"}
NoBak == [pages |-> [p \in Page |-> 0], asof |-> 0, damaged |-> FALSE, raced |-> FALSE]

VARIABLES
  ledger,    \* schema_migrations: version -> times it was applied
  obs,       \* observations: id -> key
  vec, fts,  \* ids in vec_observations and in fts_observations
  log,       \* the last commit
  file,      \* the commit each page of the file reflects
  damaged,   \* the medium damaged the file
  bak,       \* memory.db.bak, NoBak when there is none
  recent,    \* the backup is younger than BACKUP_INTERVAL_MS
  procs      \* what each process is doing

vars == <<ledger, obs, vec, fts, log, file, damaged, bak, recent, procs>>
rowVars == <<ledger, obs, vec, fts>>
bakVars == <<bak, recent>>

Version == CHOOSE v \in 0..Current : ledger[v] > 0 /\ \A w \in 0..Current : ledger[w] > 0 => w <= v

Closed == [at |-> "closed", tmp |-> NoBak, todo |-> {}]
Goto(p, pc) == procs' = [procs EXCEPT ![p].at = pc]
Connected(p) == procs[p].at \notin {"closed", "refused"}

(*------------------------------- opening --------------------------------*)

\* new Database, the pragmas and quick_check: a damaged file is refused with
\* CorruptStoreError and the connection closed.
Open(p) ==
  /\ procs[p].at \in {"closed", "refused"}
  /\ Goto(p, IF damaged THEN "refused" ELSE "backup")
  /\ UNCHANGED <<rowVars, log, file, damaged, bakVars>>

\* maybeBackup: nothing to do within the day.
NotDue(p) ==
  /\ procs[p].at = "backup" /\ recent
  /\ Goto(p, "migrate")
  /\ UNCHANGED <<rowVars, log, file, damaged, bakVars>>

\* One checkpointer at a time.
Checkpointing == {q \in Process : procs[q].at \in {"checkpoint", "closing"}}

StartCheckpoint(p, pc) ==
  procs' = [procs EXCEPT ![p].at = pc, ![p].todo = {g \in Page : file[g] < log},
                         ![p].tmp = [NoBak EXCEPT !.asof = log]]

Checkpoint(p) ==
  /\ procs[p].at = "backup" /\ ~recent /\ Checkpointing = {}
  /\ StartCheckpoint(p, "checkpoint")
  /\ UNCHANGED <<rowVars, log, file, damaged, bakVars>>

\* A backup that takes the checkpoint's word for it.
CheckpointBusy_Ignored(p) ==
  /\ procs[p].at = "backup" /\ ~recent /\ \E q \in Process \ {p} : Connected(q)
  /\ procs' = [procs EXCEPT ![p].at = "copy", ![p].todo = Page,
                            ![p].tmp = [NoBak EXCEPT !.asof = log]]
  /\ UNCHANGED <<rowVars, log, file, damaged, bakVars>>

\* busy = 1: a reader or a writer keeps frames in the log, no backup today.
CheckpointBusy(p) ==
  /\ procs[p].at = "backup" /\ ~recent /\ \E q \in Process \ {p} : Connected(q)
  /\ Goto(p, "migrate")
  /\ UNCHANGED <<rowVars, log, file, damaged, bakVars>>

\* A checkpoint writes its pages one by one; a copy in progress is raced.
WritePage(p, g) ==
  /\ procs[p].at \in {"checkpoint", "closing"} /\ g \in procs[p].todo
  /\ file' = [file EXCEPT ![g] = procs[p].tmp.asof]
  /\ procs' = [q \in Process |->
       IF q = p THEN [procs[p] EXCEPT !.todo = @ \ {g}]
       ELSE IF procs[q].at \in {"copy", "probe"} THEN [procs[q] EXCEPT !.tmp.raced = TRUE]
       ELSE procs[q]]
  /\ UNCHANGED <<rowVars, log, damaged, bakVars>>

StartCopy(p) ==
  /\ procs[p].at = "checkpoint" /\ procs[p].todo = {}
  /\ procs' = [procs EXCEPT ![p].at = "copy", ![p].todo = Page]
  /\ UNCHANGED <<rowVars, log, file, damaged, bakVars>>

\* copyFileSync to the temporary file, page by page.
CopyPage(p, g) ==
  /\ procs[p].at = "copy" /\ g \in procs[p].todo
  /\ procs' = [procs EXCEPT ![p].tmp.pages[g] = file[g], ![p].todo = @ \ {g},
                            ![p].tmp.damaged = @ \/ damaged]
  /\ UNCHANGED <<rowVars, log, file, damaged, bakVars>>

\* quick_check of the copy sees damage within a page; two sound pages of
\* different commits pass it.  The rename then replaces the old backup.
Promote(p) ==
  /\ procs[p].at = "copy" /\ procs[p].todo = {}
  /\ IF procs[p].tmp.damaged THEN UNCHANGED bakVars
     ELSE bak' = procs[p].tmp /\ recent' = TRUE
  /\ procs' = [procs EXCEPT ![p].at = "migrate", ![p].tmp = NoBak]
  /\ UNCHANGED <<rowVars, log, file, damaged>>

(*------------------------------ migrations ------------------------------*)

\* Migration 5 keeps the lowest id of each key and takes the others out of
\* the three tables.
Kept == {i \in DOMAIN obs : \A j \in DOMAIN obs : obs[j] = obs[i] => i <= j}

\* A dedupe that drops the rows alone.
Apply_RowsOnly(from) ==
  /\ ledger' = [v \in 0..Current |-> IF v > from THEN ledger[v] + 1 ELSE ledger[v]]
  /\ obs' = [i \in Kept |-> obs[i]]
  /\ log' = IF from < Current THEN log + 1 ELSE log
  /\ UNCHANGED <<vec, fts>>

Apply(from) ==
  /\ ledger' = [v \in 0..Current |-> IF v > from THEN ledger[v] + 1 ELSE ledger[v]]
  /\ IF from < Dedupe
     THEN /\ obs' = [i \in Kept |-> obs[i]]
          /\ vec' = vec \ (DOMAIN obs \ Kept) /\ fts' = fts \ (DOMAIN obs \ Kept)
     ELSE UNCHANGED <<obs, vec, fts>>
  /\ log' = IF from < Current THEN log + 1 ELSE log

\* runMigrations: the version is read and the pending steps applied in one
\* immediate transaction.
Migrate(p) ==
  /\ procs[p].at = "migrate"
  /\ Apply(Version)
  /\ Goto(p, "open")
  /\ UNCHANGED <<file, damaged, bakVars>>

(*-------------------------------- running -------------------------------*)

\* createObservation: a key that is there already is left alone.
Insert(p, k) ==
  /\ procs[p].at = "open" /\ log < MaxCommit
  /\ \A i \in DOMAIN obs : obs[i] # k
  /\ \E i \in Id \ DOMAIN obs :
       /\ \A j \in DOMAIN obs : j < i
       /\ obs' = [j \in DOMAIN obs \cup {i} |-> IF j = i THEN k ELSE obs[j]]
       /\ fts' = fts \cup {i} /\ vec' = vec \cup {i}
  /\ log' = log + 1
  /\ UNCHANGED <<ledger, file, damaged, bakVars, procs>>

\* close: a best-effort checkpoint, which another process may keep busy.
Close(p) ==
  /\ procs[p].at = "open" /\ Checkpointing = {}
  /\ StartCheckpoint(p, "closing")
  /\ UNCHANGED <<rowVars, log, file, damaged, bakVars>>
Finish(p) ==
  /\ \/ procs[p].at = "closing" /\ procs[p].todo = {}
     \/ procs[p].at = "open" /\ \E q \in Process \ {p} : Connected(q)
  /\ procs' = [procs EXCEPT ![p] = Closed]
  /\ UNCHANGED <<rowVars, log, file, damaged, bakVars>>

\* The process dies where it is; its temporary file is never read again.
Crash(p) ==
  /\ Connected(p)
  /\ procs' = [procs EXCEPT ![p] = Closed]
  /\ UNCHANGED <<rowVars, log, file, damaged, bakVars>>

Damage == ~damaged /\ damaged' = TRUE
          /\ UNCHANGED <<rowVars, log, file, bakVars, procs>>
DayPasses == recent /\ recent' = FALSE
             /\ UNCHANGED <<rowVars, log, file, damaged, bak, procs>>

Init ==
  /\ \E v \in Legacy : ledger = [w \in 0..Current |-> IF w <= v THEN 1 ELSE 0]
  /\ \E n \in 0..Cardinality(Id) - 1 : obs \in [1..n -> Key]
  /\ Version >= Dedupe => Kept = DOMAIN obs
  /\ fts = DOMAIN obs /\ vec \in SUBSET DOMAIN obs
  /\ log = 1 /\ file = [g \in Page |-> 1] /\ damaged = FALSE
  /\ bak = NoBak /\ recent = FALSE /\ procs = [p \in Process |-> Closed]

Next ==
  \/ \E p \in Process : Open(p) \/ NotDue(p) \/ Checkpoint(p) \/ CheckpointBusy(p)
  \/ \E p \in Process : StartCopy(p) \/ Promote(p) \/ Migrate(p)
  \/ \E p \in Process : Close(p) \/ Finish(p) \/ Crash(p)
  \/ \E p \in Process, g \in Page : WritePage(p, g) \/ CopyPage(p, g)
  \/ \E p \in Process, k \in Key : Insert(p, k)
  \/ Damage \/ DayPasses

Spec == Init /\ [][Next]_vars

(*------------------------------ properties -------------------------------*)

\* The backup, once there is one, restores: it is undamaged, of one commit,
\* and no older than the day's checkpoint that preceded it, whatever crashes
\* and damage came after, unless another process's checkpoint wrote under
\* the copy.
BackupRestores ==
  bak # NoBak =>
    /\ ~bak.damaged
    /\ bak.raced \/ (bak.pages["rows"] = bak.pages["index"] /\ bak.pages["rows"] >= bak.asof)

\* Each migration is applied once, however many processes open together, and
\* the migrated store has one row per key, the lowest id of each, and no
\* vector or keyword entry without its row.
MigratedOnce ==
  /\ \A v \in 0..Current : ledger[v] <= 1
  /\ vec \cup fts \subseteq DOMAIN obs
  /\ Version >= Dedupe => Kept = DOMAIN obs
=============================================================================
