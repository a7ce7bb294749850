# agentbrainsystem in TLA+

agentbrainsystem (`abs`) is a local memory for coding agents. Many short-lived
processes (hooks of the coding harness, the CLI, detached `abs maintain --auto`
cadences) and a few long-lived ones (MCP stdio servers, the UI server) share one
SQLite file, `memory.db`, next to some lockfiles, an index of the repository's
symbols, and Markdown files that belong to the user. No process is in charge:
each opens the store, does its work with its own embedding and LLM calls, and
may be killed at any moment. What can go wrong is therefore rarely inside one
function; it is between two calls of it, or between two processes. These modules
are about that.

Within a process the code is single-threaded Node: it runs until the next
`await` (an LLM call, an embedding, a file operation). Every store call is
synchronous and one SQLite transaction, so in the models **one transaction, one
filesystem call or one resumed await is one step**, and any step of another
process may come between two of them. A kill is possible at every step.

## 1. Inventory

| component | state | operations | where it is hard |
|---|---|---|---|
| Cadence lock (`store/cadence-lock.ts`) | one file: token, mtime | acquire (create / stat / rename / recreate), heartbeat, release | check and act are separate filesystem calls; dead holders; frozen holders |
| Rebuild lock (`store/write-lock.ts`) | one file: pid, time | acquire, steal, release, read by session-end hooks | a stale file is overwritten in place; hooks check it and then open the store |
| Maintenance cadence (`maintain/run.ts`) | kv_meta counters | consolidates the newest unconsolidated session, then promotes lessons, under the cadence lock | competes with the CLI, which takes no lock |
| Consolidate (`consolidate/`) | rows of source `consolidate` | choose a session, ask the LLM, write lessons, replace the old ones | partial batches, rows shared through the content hash, reads older than an await |
| Optimize (`optimize/`) | a cursor per kind and project in kv_meta; CLAUDE.md and consolidated-lessons.md | generate, curate, approve, apply, advance | the advance reads rows that arrived after the candidates were made; three callers; files edited by the user |
| Memory store (`store/memory-store.ts`) | sessions, observations, fact_anchors, kv_meta | CRUD, cursors, anti-joins, backup and migration on open | idempotence by content hash; ids that must not be reused |
| Embedding index (`indexer/indexer.ts`, `memory.ts`) | vec_observations, fts_observations, the embed signature | write, ensureIndex, rebuild, staleness | rebuild awaits between pages while others write; three counts stand for two sets |
| Ingest (`ingest/`) | per-transcript cursors, session bindings in kv_meta | ingest a transcript, bind or skip a session | the cursor is written after the rows; a session deleted or skipped during an ingest |
| Forget (`delete/delete.ts`) | preview handles in memory (TTL, 256 at most) | preview, execute, session cleanup | rows change between preview and execute; handles expire or are used twice |
| Export and import (`export/index.ts`) | an NDJSON artifact | stream out, merge in, replace | export while others write; ids and session numbers change on import |
| Hooks (`hooks/`) | none of their own | session-end (ingest, spawn the cadence), session-start (banner), user-prompt and pre-tool (recall) | an 8 s race against the handler; deferral while a rebuild runs |
| Anchors (`anchoring/`, `maintenance/post-capture.ts`) | fact_anchors: claimed, verified, stale, moved | verify, heal, bounded sweep | a bound per sweep that blocked rows may exhaust |
| Symbol index (`index/`) | base and overlay symbols, fingerprints, an index lock | refresh on commit or edit | overlay applied, then its fingerprint stored |
| Embedding providers (`embedding/`) | a shared model load | budgeted load, HTTP with retries | a load that outlives its budget |
| Recall (`recall/`) | none | fusion of two rankings, scoping, noise floor | pure |
| Global brain (`global.ts`) | the session `__global__` | promote by move or by curated copy | a move changes one of a lesson's two session numbers |
| MCP server (`mcp/server.ts`), CLI (`cli/`), local UI (`ui/`), tray (`src-tauri/`) | optimize candidates of the last tool call; preview handles | thin calls of the above | the server's index gate runs in the background while tools answer |
| Harness adapters and installers (`harness/`, `hooks/installer.ts`) | harness configuration files | install, uninstall, read transcripts | idempotence of edits in files shared with the user |

How they interact: session-end ingests the transcript (observations with vectors
and FTS rows), and when enough turns have gathered it spawns a cadence; the
cadence takes the cadence lock, consolidates one session into lessons and decisions
(rows of source `consolidate`), promotes lessons into a file and advances the
lesson cursor; a user promotes decisions through `abs optimize` or the MCP
tools; the banner at session-start reads the anti-join and the cursors; forget,
import and promote change any of these rows at any time.

What makes each component correct, in a line each:

- *Cadence lock:* one cadence at a time, and no dead holder blocks it for ever.
- *Rebuild lock:* while an owner rebuilds, hooks that look see it.
- *Embedding index:* a store that reads as fresh has exactly its rows indexed, by
  the configured provider; a stale one is repaired.
- *Consolidate:* a session has its old lessons or all of the new ones; nobody
  else's rows are deleted; each session is paid for once.
- *Optimize:* no row is skipped unseen, none is written twice, cursors only rise;
  what the user had in a file is in it or in a backup.
- *Memory store:* the daily backup restores, migrations are applied once and lose
  nothing, a purged store stays purged.
- *Ingest:* every turn of a transcript is stored once, in the end, under the right
  project; the user's decision about a session holds.
- *Forget, Export:* only what the preview showed is deleted; no session that
  gained a row is removed; an artifact is one the importer takes.
- *Hooks:* no capture and no spend the user was not told of; what is put off is done.
- *Anchors, Symbol index:* an index that says it is ready agrees with the commit;
  no anchor goes stale whose target is there.
- *Recall:* fresh facts before stale ones, curated ones before raw turns.
- *Embedding providers, LLM client:* one load, bounded retries, no request after an abort.
- *Installers, setup:* the user's configuration survives; what is reported is so.

`PROJECT.json` lists every component with its status, and the hazards at the
lines where they bite.

## 2. The modules

| module | what it models | run |
|---|---|---|
| `ExclusiveRun` | abstract: what an advisory lock promises (one run at a time, until the lock of a live holder is broken once); implemented by `CadenceLock`, used by `Consolidate` | `cadence_lock` |
| `CadenceLock` | the lock protocol, one filesystem call per step | `cadence_lock` |
| `MemoryIndex` | the rows, their two indexes, the signature, and every process that writes, rebuilds, deletes, imports | `index_rows`, `index_live`, `index_signature` |
| `Optimize` | generation, curation, approval, writing and the cursor advance, for its three callers | `optimize` |
| `Consolidate` | the write-then-replace saga, cadences under `ExclusiveRun` and manual runs without it, and everybody who changes lessons meanwhile | `consolidate`, `consolidate_force` |
| `Capture` | the ingestion of one transcript, with its position, binding, session, rows and anchors | `capture` |
| `SymbolIndex` | the refresh of the repository's symbols from git | `anchors` |
| `Anchors` | claims, sweep and healing; EXTENDS `SymbolIndex` | `anchors` |
| `StoreOpen` | integrity check, daily backup, migrations, checkpoint on close | `store` |
| `Purge` | `abs uninstall --purge` beside open stores | `store` |
| `Forget` | preview and execute of a delete, from browser tabs | `store` |
| `Export` | the artifact, its temporary file and its counts | `store` |
| `RebuildLock` | the lock that asks hooks to wait | `store` |
| `Applier` | the writer of the user's Markdown files, with backups | `store` |
| `Hooks` | session start, prompt and session end, their notices and flags | `harness`, `hooks_deferred` |
| `Transcripts` | the line parsers of Claude Code, Codex and Copilot, resumed at any line | `harness` |
| `Installers` | the configuration files of five harnesses | `harness` |
| `Setup` | registration with the harness and the interview about an LLM | `harness` |
| `Recall` | two rankings, their fusion, weights, noise floor, freshness | `harness` |
| `HttpRetry` | a request to a hosted backend | `harness` |
| `ModelLoad` | the shared load of the local model | `harness` |

`*Proofs` modules hold the theorems (section 4). `MC*` modules give the symmetry and
the instances for TLC. `StoreSuite` and `HarnessSuite` (runs `store` and `harness`) put components side
by side that share no state in these abstractions (they meet in files that another of them only sees
present or absent): a behaviour of the suite is a behaviour of one component, chosen at
the start by the variable `part`; the variables of the others hold the value `Off`. The suites declare the
constants of their components and what is assumed of them, and the theorems about the components are theorems
about the `Spec` of the suite.

### CadenceLock

`lockfile` is the file `.cadence.lock`: whose token it carries and whether its
mtime is younger than the TTL. `pc` says which filesystem call a process makes
next. `TryCreate` is `writeFileSync(.., {flag: 'wx'})`, `CheckStale` the `stat`,
`Rename` and `Recreate` the steal, `Cleanup` the removal of the renamed file,
`HeartbeatCheck`/`HeartbeatTouch` and `ReleaseCheck`/`ReleaseRemove` the two
halves of `heartbeat()` and `release()`. `Expire` is the TTL passing without a
heartbeat: with `MayFreeze` it happens to live holders too (a laptop that sleeps,
SIGSTOP). `Crash` is a kill at any step. Tokens are UUIDs: those that no live
process carries are all the one value `Ghost`, which makes the state space finite
without a bound on attempts. `stolenLive` is a history variable: a steal has
moved away the lock of a live holder.

### MemoryIndex

`observations`, `vectors`, `fts`, `signature` and `rebuildFailed` are the tables
and kv_meta keys; a vector is the signature of the provider that produced it.
`proc` is what each process is doing inside `ensureIndex`, `rebuild` and `write`.
`openMemory` opens with or without the startup gate; `EnsureCounts` reads the counts,
`EnsureVerdict` the signature, and decides; `EnsureStamp` is the stamp of a store that had
none, by then perhaps no longer so; `RebuildPage`, `RebuildEmbedded` (the await), `RebuildVector`,
`RebuildFts`, `RebuildPrune` and `RebuildStamp` the steps of a rebuild; `RebuildClear`
the removal of the failure flag, on either path; `WriteBegin` and `WriteCommit` the two sides of the await of `write()`.
`Delete` is deleteObservation or deleteSession, `Import` both modes of
importStore, `ChangeConfig` a new provider for the processes started from then on.
The three SELECTs of `counts()` are one read; no write of the code comes between two of them
within a process, but one of another process may (section 6).

### Optimize

One project. `kind`, `here` and `nextId` are the consolidated rows of the project,
`cursor` the kv_meta cursors, `run` each run of the cadence, the CLI or the MCP
tools. `Generate` reads the rows above the cursors, `Judged` is the curation
answer (any keep-set), `Check` the applier's content check, `Write`/`WriteFails`
the outcome, `AdvanceKind` one call of advanceOptimizeCursorForKind. `Consolidate`,
`Forget`, `MoveSession` and `EditFile` are the other processes and the user. What
the files contain is left out: a run knows whether a file still has the content
its diff was rendered against.

### Consolidate

`rows` are the lessons with both their session numbers (`at` is session_id, which
promote changes; `from` is metadata.sourceSession, by which consolidate finds
them) and what their content hash was computed from (`born`, `content`). `run` is
each call of `consolidate()`: the old lessons it found before the LLM call
(`prior`), what is left to write, what it has written, what is left to delete.
`Begin`, `Distilled`/`NothingToWrite`, `writeLesson`, `AllWritten`, `WriteThrows`,
`DeleteNext` and `AllDeleted` follow the function; `Killed` ends it anywhere.
A cadence enters through `Lock!Begin` of `ExclusiveRun`, leaves through `Lock!End`,
and `StealLock` is `Lock!Break`: the lock is used as `CadenceLock` was shown to
implement it; a cadence's promotion steps, which follow under the same lock, are
in `Optimize`, so here it leaves the lock when `consolidate()` is over, which only
adds behaviours. `abs consolidate` takes no lock. `Ingest`, `Forget`,
`DeleteSession`, `Promote` and `Import` are the rest of the program. `met` and
`renumbered` are history: who else has changed the lessons of a run's session,
and of which sessions an artifact had another number.

Abstractions: which session is the newest is open (the timestamps are those of
transcripts), so nothing is said about starvation; of observations other than
lessons only which sessions have some is kept, and a session that has some keeps
some; an import is of one lesson, in replace mode preceded by deletions.

### Capture

One transcript of one session. `file` is its entries, `torn` says that the harness
has written only half of the last one, `mark` is the position in kv_meta: a byte
offset (Claude Code, Codex, Copilot), counted in half entries, or the id of the
last entry (Gemini, OpenCode). `ing[p]` is an ingestion: what it has read when it
began, the cached binding and the cached session. `ReadBinding` and
`ResolveSession` are `resolveSession`, `WriteEntry` and `SeedAnchors` the writes
of `writeEntry` after the embedding was awaited, `Finish` the position. The harness
appends (`WriteNext`, `CompleteEntry`), compacts or rewinds (`Truncate`); the user
skips (two transactions: `SkipDeletes`, `SkipMarks`), sets (`SetMarks` writes the binding,
`SetFinds` looks for a stored session, `SetFiles` files it), includes and deletes
the session; `BinderDies` is a kill between two of these. `dropped`, `excused`, `raced` and
`unfiled` are history: what a known limit (section 6) or the user took away.

### Transcripts

The parsers keep a state within one run (the directory named by a header, the
item whose mirror must not be stored twice, the event ids seen) and only the
directory between runs. `Push` is one line, `KeepCwd` and `KeepCursor` the two keys
written at the end of the file, `Stops` an embedding that fails or a kill.

### SymbolIndex and Anchors

`tree`, `commits`, `head` and `pruned` are the repository (one symbol; a file has it,
has not, or is not there), `rows`, `indexed` and `overlay` the index, `job` the refresh
that holds the refresh lock. The commit stage and the overlay stage are listed, read
file by file (`Read`, one await each), applied in one transaction each
(`ApplyCommit` with its stamp, `ApplyOverlay`), and `RecordOverlay` is the
transaction after that. `OverBudget`, `PutOff`, `ListFails`, `StatusFails`, `ReadFails`
and `Crash` are what cuts it. `DiffNames` is `git diff --name-only` with rename
detection. `adrift`, `unrecorded`, `behind` and `excused` are history: files the index cannot
know about, or has read and not recorded that it did. `Anchors` adds `Seed`, `Sweep` and `Heal`, with `Resolves` as the provider
of ground truth.

### StoreOpen and Purge

A commit is a number, the database file two pages and the commit each reflects; a
checkpoint carries commits into pages one by one, a backup copies them one by one.
`CheckpointBusy` is the answer busy = 1 for which the backup is left out; `Promote`
the quick_check of the copy and the rename. `Migrate` is one immediate transaction.
In `Purge` a file created anew is a new generation, and who has the old one open
keeps it; `Delete` is one `rmSync`, in the order of `Order`.

### Forget and Export

`Preview` resolves a selector and pins the ids under a handle; `Execute` deletes what
was pinned, with the session cleanup; `cache` is the last `MaxCache` handles, `Expire`,
`Restart` and another tab's `Reload` what can come between. `Relabel`, `Capture` and
`Promote` change rows meanwhile. `Export` counts, lists, walks a statement that
sees the store as it was when the walk began, reconciles and renames; an exporter
writes to the file it opened, whatever its name is by then.

### RebuildLock

`holder` and `fresh` are the file. `Create` is the exclusive create, `CheckStale` the look at
the file when that has failed (`existsSync` and `stat`: the second decides, so they are one read), `Steal`
the overwrite in place: two who saw it stale, or saw none, both own it, one after the other, and the
file that is overwritten may have been fresh all the time. `GoesStale` is 15 s without a heartbeat.
`overtaken` is history: the owners that were slower than that, that wrote the file while another
server stood before its overwrite, or whose file was removed by one of these. The server that does not get the lock rebuilds all
the same; hooks that read it are `CheckLock` of `Hooks`.

### Applier

A file is the set of marks in it: the user's edits, the texts of candidates and the
pointer in MEMORY.md. `Check`, `Backup`, `Rename`, `Rollback`, `Prune` and
`IndexPointer` are the awaits of `applyCandidate`; `UserEdits` comes between any two.
How `Optimize` sees it: `Check`, then `Write` or `WriteFails`.

### Hooks

`hook[s]` is the process of session `s`: its event, where its handler is, and whether the
8 s runner has given up (`late`), after which the handler goes on and nothing is
printed. `firstFlag` and `spendFlag` are the kv_meta marks that are set before the
notice is printed. `CheckLock` and `EnsureReady` put a session off, `Ingest` is
`ingestSingleSession`, `SpawnCadence` the detached `abs maintain --auto`.

### Installers and Setup

`Edited(op, file, exact)` is what each installer makes of the file it has read: refuse, leave,
hand over to the user, or write; `exact` says whether its text is what the installer would write (four of
the five compare texts). A run reads, backs up, renames (`Read`, `Backup`,
`Write`), with `WritePlugin` before and `Unlink` after it for OpenCode. A file that cannot be read
counts as absent, in `Read` as in `Backup`, as in the code. A backup gets a name of its own, or, in the same
millisecond, that of the last one, which it overwrites: `recent` is what only the last backup holds, `saved` what is in
backups whose names cannot come again. OpenCode's names are counted and never do. The user and
other tools edit the file meanwhile. `Setup` sees the harness only through what its
command line prints; `choice` is the marker of the interview, which `Interview` and
`RecordWithoutPrompt` write.

### Recall, HttpRetry, ModelLoad

`Recall` has the legs of `knn` and `searchFts` as any rankings of the candidates, in
integer arithmetic (`Scale` is a common multiple of the denominators); a sort is the one arrangement
that is in order (`Ordered`). It reads the
hits one by one while rows are deleted and go stale. `HttpRetry` is `fetchWithRetry`
with the caller's signal; an answer is good or, when `extractVectors` finds it short or misshapen, an
error; `ModelLoad` the memoized load
that outlives the budget of who began it.

## 3. The runs

All runs use two TLC workers and end within four minutes. Deadlock is checked in the
runs of the lock, the index, `optimize` and `consolidate`; the others stop where their bounds
end (`CHECK_DEADLOCK FALSE`).

| run | instance | what it shows |
|---|---|---|
| `cadence_lock` | 3 processes, live holders may freeze | `LockInv`, `ExclusiveUnlessStolen`: exclusion until a live holder's lock is stolen; `AbstractSpec`: the protocol implements `ExclusiveRun`; `DeadHolderCleared`: a dead holder's file goes away |
| `index_rows` | server and CLI, 2 providers, 2 ids, pages of 1, artifacts with vectors | `IndexInv`: nothing is without index entries; `FreshMeansExactRows`: the three counts never deceive |
| `index_live` | server and CLI, 1 provider, artifacts without vectors | `RebuildCovers`: keyset paging misses nothing; `StaleIsRepaired` and `DegradedIsCleared` under fairness |
| `optimize` | 2 runs of any caller, 2 rows, one of which moves | `OptimizeInv`, `AdvanceIsEarned`, `WrittenIsPassed`, `CursorsOnlyAdvance` |
| `consolidate` | 2 processes (each a cadence or manual), 2 sessions, 2 lesson ids, 2 contents | `ConsolidateInv`, `OldOrNew`, `AllOrNothing` |
| `capture` | 2 ingestions of one transcript of each kind of position, 2 entries, 2 texts, one decision | `Captured`: nothing behind the position is lost; `BindingHonoured`: the user's decision holds |
| `anchors` | 2 files, one of an unsupported language, 2 commits, 2 edits, one anchor | `ReadyTruthful`: ready means that the index agrees with the commit; `NoFalseStale` |
| `store` | 2 (the rebuild lock: 3) processes per component | `BackupRestores`, `MigratedOnce`, `PurgedStaysPurged`, `AllShownGone`, `OnlyShown`, `ArtifactImportable`, `Announced`, `Recoverable` |
| `harness` | 2 sessions, or one resumed twice; 3 lines; 2 runs of the installers and of setup; 2 candidates of rank 1 and 40; 4 attempts; 3 loads | `SpendAnnounced`, `CaptureAnnounced`, `NoTurnLost`, `FiledRight`, `UserConfigKept`, `PluginThere`, `SaidSo`, `ChoiceStands`, `FreshFirst`, `CuratedLeads`, `AbortStops`, `OneLoad` |
| `index_signature` | 1 process, 2 providers | **violation** of `FreshMeansOwnVectors`: one ungated write stamps the new signature over old vectors |
| `consolidate_force` | 1 process, artifacts with both session numbers | **violation** of `ForceReplacesOwn`: `--force` deletes lessons imported for another session |
| `hooks_deferred` | 2 sessions, fair hooks | **violation** of `DeferredIsCaptured`: a session put off is not captured by the end of another |

Every property of a passing run has a mutant of the code (an operator beside the
original, marked `Mutant` or described by its comment, such as a dropped lock, a
forgotten exclusion, a position written too early) under which TLC finds it violated.

### The properties, and what they do not say

Where the code accepts a loss, the property excepts exactly that, by a history variable
that says when it happened; the exceptions are the code's known limits.

- `ExclusiveUnlessStolen` stops speaking once a live holder's lock was moved
  away: that a *frozen* holder loses its lock is the code's decision; a *running* one
  can lose it, too (section 6).
- `FreshMeansExactRows` is about artifacts that carry vectors. With vectorless
  ones a missing vector and the orphan of a crashed rebuild can make the counts
  agree on a wrong set.
- `WrittenIsPassed` is about runs that come to their advance; one that is killed
  after writing has its bullets written again by the next, as the code accepts.
- `OldOrNew` and `AllOrNothing` are about runs that nobody disturbs: no manual run
  on the session, no other cadence (the lock sees to that, until it is stolen),
  no forget, deletion or import on the session's lessons, no artifact with other
  ideas about its number. `AllOrNothing` does not speak of killed runs: a run
  killed among its writes leaves a partial batch beside the old lessons, which is
  what `OldOrNew` allows (for a first run the old lessons are none, and the session
  counts as consolidated from then on).
- `Captured` excepts entries read by halves, entries the user skipped or deleted
  (`excused`), and those of a Copilot file that was compacted and has grown back to its
  position (`dropped`). `BindingHonoured` excepts an ingestion that acts on a
  binding it had read before it changed (`raced`), and a project whose setter was killed
  between the binding and the filing of the session (`unfiled`).
- `ReadyTruthful` and `NoFalseStale` except files edited under a refresh or that did not
  parse (`excused`). `ReadyTruthful` also excepts files that git does not list, renamed away or gone before a
  cold start, or that a commit stage read dirty (`adrift`); and files whose rows were applied by a pass that was then cut or
  killed before it stamped or listed them, where what it read is not what the stamp stands for, until a later refresh
  records them (`unrecorded`): the crash of hazard `index/indexer.ts:305`, when the file is reverted before the next
  refresh, is among these. `NoFalseStale` excepts files that were changed since the index last read them (`behind`).
- `BackupRestores` excepts a copy under which another process's checkpoint wrote (`raced`);
  `ArtifactImportable` two exports to one path (`overlapped`); `Announced` owners slower
  than 15 s, owners that wrote the file while another server stood between its check and its overwrite, and
  owners whose file such an owner removed (`overtaken`).
- `Recoverable` excepts what is put into a file, by an edit or by another writer's rename or rollback,
  while a writer is between its backup and its own rename or rollback (`excused`), and what was in a
  pruned backup. `UserConfigKept` excepts what the user saves between a writer's last copy
  and its rename, what a run could not read and replaced all the same (a self-heal: without a backup), and a backup
  that another one of the same millisecond overwrote (`excused`); `PluginThere` two runs at once (`crossed`).
- `SpendAnnounced` and `CaptureAnnounced` except sessions whose hook printed nothing, killed
  or too late (`missed`, `spendLost`).
- `FreshFirst` is about the MCP tool: the prompt hook cuts its list before it annotates.
  `CuratedLeads` compares hits that are found by as many of the two legs.
- `SaidSo` assumes that no other server's line of `mcp list` contains our name.

### Bounds

- Two processes, because every hazard listed is between two; three for the two locks,
  where two can steal from a third. Lock attempts, crashes, steals, refreshes and
  ingestions are unbounded; edits, decisions and rows are bounded.
- `MaxId` = 2 (`store`: 3, so that a forgotten row has one before and one after it). An orphan beside a
  missing row, a row before and after a page, a reused lesson beside a new one, a promoted row beside a
  kept one: each is a relation between two rows. Ids are never reused, so a behaviour ends in states
  where the insertions stop and everything else goes on.
- `PageSize` = 1, so that two rows are two pages.
- `MaxSession` = 2: in `consolidate` the global session and one other, where the run with `Numbers`
  lets the artifact use either number for the other; in `capture` a session and the one that is made
  after it was deleted.
- `Numbers`, `Promotable` and `Movable` say which rows the passing runs import,
  promote or move; they keep the state space small and the theorems do without them.
- `capture`: two entries, because what is lost is an entry behind or before another; `Torn`
  names the kinds of file that are seen half written, and leaves out the half-written Copilot file,
  which is read by the same lines of `ingestFile` as the others. `Yield` is what is seen in each kind: each holds two of
  a turn, an edit and noise. An edit is stored as a turn is and then anchored, so turns beside edits are seen for
  Copilot, whose file is compacted, and turns or edits beside noise for the others.
- `anchors`: two files are a rename, two commits a diff, a checkout back and an amend;
  `SweepLimit` = 1 and one anchor, so that each sweep is at its limit.
- `store`: `MaxHandle` = 2 with `MaxCache` = 1, so that one preview evicts another; `MaxBackups` = 1
  with `MaxStamp` = 2, so that a backup is pruned; `MaxCommit` = 3: the store before, under and after a copy;
  `MaxGen` = 2: the purged store and the next one.
- `harness`: `MaxLine` = 3 (a header, an item, its mirror), `MaxRun` = 3 (a choice, a scripted
  run, an uninstall), `MaxAttempts` = 4 and `MaxDelay` = 3, the code's attempts and three steps of its backoff below the cap; `MaxResume` = 2
  for one session and none for two (`MaxMixed`: sessions that have begun when one is resumed); ranks 1 and
  40 of a leg, a fact at the top and one deep below it; two entries, one of them the server with our name,
  and `MaxEdit` = 2, an entry saved and then broken, removed or joined by another.

Symmetry (processes and contents in `consolidate`, `capture` and `store`, runs in `optimize`) is used only
in runs without liveness.

### Fairness

- `CadenceLock`: cadences are attempted again and again (session-end spawns them)
  and time passes; an attempt, a steal and a release go on unless killed, and no
  process is killed at the same two calls every time (strong fairness for the
  calls that another process can disable meanwhile). Nothing says that a
  given process ever gets the lock.
- `MemoryIndex`: memory is opened with the gate again and again, short-lived
  processes end, and the steps of one call follow each other. Embedding calls may
  fail for ever, and processes may be killed at every step; `StaleIsRepaired`
  therefore has (and so has `DegradedIsCleared`) the premise, in its formula, that *some* process is from some
  point on neither killed nor failed while it rebuilds. A rebuild restarts from
  its first page, so without that the code makes no such promise.
- `Hooks`: every session begins and ends and the handler of its hooks goes on (weak
  fairness), which is what the harness provides; `abs ingest` and resumptions are the user's, and
  not fair.
- The other modules state no liveness.

## 4. What is proved

Every safety invariant and every action property of the passing runs is a theorem, for every value of the
constants: any number of processes, providers, sessions, rows, lessons, servers, ingestions, entries, writers,
lines, files, callers and attempts, any page size. The theorems assume only the `ASSUME`s of the modules,
which TLC evaluates in the runs:

- sentinels are distinct from what they are told apart from (`MarkerAssumption` of the suites, and its like),
  bounds are numbers, ids are finitely many, a page has a row, a number of attempts is not zero;
- `DepthAssumption` (Recall): the candidates of a leg are at ranks up to 90, that is, up to 18 results are asked
  for (a pool is five times the limit, and 50 at the least). It is what the code's numbers give: the weight 2.5 of a
  curated kind makes up for a depth of 90 in a leg (1/60 = 2.5/150) and no more. The property is about
  those limits; with a larger one a curated fact at the bottom of a pool may come after a raw turn at the top of
  it.

- **CadenceLockProofs.** `LockInvariant`, `ExclusiveRuns`, `Refinement`. `LockInv` is inductive:
  a token is on disk only between create and release, and until a live holder's
  lock is moved away every process that created one owns the file. Two owners of
  one file are one process, hence exclusion; each step of the protocol is then a
  `Begin`, an `End`, a `Break` or a stutter of `ExclusiveRun`.
- **MemoryIndexProofs.** `IndexInvariant`, `FreshIsExact`, `RebuildCoversAll`. That no id
  is handed out twice (`IdsHandedOut`) carries everything else: a row that a
  rebuild brings back after its await is an orphan and never another row's. With
  `Indexed` the index rows are supersets of the observations, so equal counts mean
  equal sets (a cardinality argument). `KeysetInv` is the strengthening for
  `RebuildCovers`: a cursor is below the next id, and where a rebuild has not begun it is 0.
- **OptimizeProofs.** `OptimizeInvariant`, `AdvancesAreEarned`, `WrittenRowsArePassed`,
  `CursorsNeverMoveBack`. The invariant ties a run to the rows it read (below
  `nextId`, kept a subset of seen, applied kinds among the candidates); the action
  properties follow from it and from the two branches of the advance.
- **ConsolidateProofs.** `ConsolidateInvariant`, `OldOrNewAlways`, `AllOrNothingRuns`.
  `ConsolidateInv` says what the lessons of an undisturbed run's session are at each pc
  (`Progress`). It is inductive because of three facts: a run's ids are ids of its
  session's rows or of deleted ones (`RunInv`, which needs that ids are never
  reused); rows whose two numbers differ belong to renumbered sessions, so that a
  write that finds its row in place finds a row of its own session (`RowsInv`);
  and two runs on one session know of each other, two cadences being there only
  once the lock was stolen (`MeetInv`, from `ExclusiveRun`). Each action of another
  process either touches the run, or leaves the lessons of its session alone
  (`OthersStep`, `OwnStep`).
- **CaptureProofs.** `CaptureCaptured`, `CaptureBinding`. `CaptureInv` has what an ingestion in flight owes:
  all that its position will be behind when it is written is settled (stored, skipped, deleted), still
  among its entries, read by halves, or, for Copilot, newer than the ingestion (`Accounts`); and no position is
  past what was ever written (`Reached`), so that a new entry comes after all of them. Entry ids increase along the
  file, so a prefix that remains after a rewind stays at its places. `SessionInv` says that no ingestion writes for a
  session it has not found or made (`Knows`), and that after a decision only a raced ingestion, or a kill between
  its steps, breaks it.
- **StoreProofs.** Over the suite `store`, one invariant per component:
  - `MigrationsApplyOnce`: the ledger is an initial segment of the migrations (`RowsInv`), so that each one finds
    exactly what its predecessors left. `BackupsRestore`: only one process checkpoints at a time, what it
    has written reflects the commit it began with, and an unraced copy is of the one commit that the
    unchanging file is of (`BackupInv`).
  - `DeletedStaysDeleted`, `DeletesOnlyShown`: a handle is minted once, so what is pinned under it is what its tab
    shows; ids only rise, so no later row gets the id of a shown one (`ForgetInv`).
  - `PurgesStayPurged`: a row is held by one generation of the files only, and what there was when the purge began
    is held by a generation whose name is gone (`PurgeInv`); that the database goes before its log is needed for it.
  - `ArtifactsImport`: unless two exports shared the temporary file, who has it open has it alone and it
    holds what its own walk wrote under its own count (`ExportInv`).
  - `OwnersAreAnnounced`: while a server stands before its overwrite every owner is overtaken, because it saw none
    that was not, and who writes the file meanwhile is marked so; who is about to renew or remove the file still owns
    the lock (`LockInv`). Two lemmas carry it: `WriterKeeps` for the two steps that write the file, `CheckStaleKeeps`
    for the look at it.
  - `LosesNothing` (the action property `Recoverable`): what is in a file that a writer is about to replace is in that writer's own
    backup or excused, and no two writers have one backup (`ApplyInv`). It takes an invariant, although it is
    about single steps: the rename relies on the copy made two awaits before.
- **HarnessProofs.** Over the suite `harness`:
  - `SpendIsAnnounced`, `CaptureIsAnnounced`: whoever set the flag has printed, is about to print or has lost its
    notice (`Spending`); a session that is not left out has the notice on its way from its start hook, has been
    told, or is missed (`Capturing`).
  - `NoTurnIsLost`, `SessionsFiledRight`: what a parser remembers stands in the lines it has read (`Remembers`);
    a mirror that is dropped is therefore the mirror of a stored line. The directory it carries is the last one
    named (`Directed`), but for a Copilot run that is repeated.
  - `ConfigurationIsKept`, `PluginStaysThere`: what a run is about to lose has been copied, is written again, or is
    excused by a read that failed or a name that came twice; a lone run that writes hooks has the plugin there (`Beside`).
  - `ChoicesStand`, `ToldTruly`: the marker is what the person chose, and so is what every run under way has read of
    it, unless the interview ended while another had already read (`Standing`, `behind`); the server is filed only in the scope from which it is removed.
  - `FreshComesFirst`, `CuratedFactsLead`: while hits are read no candidate gets lost that is there and relevant
    (`Pool`), and they are in the order of their weights (`Sorted`). That a curated fact's weighted share
    beats any raw turn's found by as few legs is arithmetic over `DepthAssumption`.
  - `AbortsStop`: the waiting before attempt *n* is at most (*n* - 1) caps. `LoadsAreShared`: the pending load is the memoized one, and a
    failed one is taken out of the cache in the step in which it fails.
- **AnchorsProofs.** `ReadyIsTruthful`, `NeverFalselyStale`. `SymbolInv` has what the index knows when nobody refreshes
  it (`Current`: rows agree with the files nobody has touched since; `Accounted`: rows that neither the overlay
  list nor a known gap, `unrecorded` among them, accounts for show the stamped commit) and what a refresh in flight owes: what it is about to
  apply is what it read (`Pending`), a file it neither reads nor has read shows the commit it is about to stamp
  (`Stamping`), and the overlay list that it replaces is covered by the files it reads again (`Covered`, `Reconciling`).

Attempting the proofs corrected the model in two places. In `Applier`, the history `excused` was too small: with three
writers, a mark renamed into a file can be overwritten by the rollback of one and be in the backup of none,
which TLC confirmed; what is excused is now stated by what was at risk when it was put there (`AtRisk`). In
`Setup`, the guards of a CASE overlapped, so that its value was arbitrary.

Only model-checked: liveness (`DeadHolderCleared`, `StaleIsRepaired`, `DegradedIsCleared`), which needs fairness
and ENABLED, beyond the prover; and the violations, which are counterexamples.

## 5. What the violations show

`PROJECT.json` has the quotations; in short:

1. `indexer.ts:100`: a write stamps its own provider's signature whatever the rest of
   the index holds, and the mixed index reads as fresh.
2. `consolidate.ts:139`: lessons are found by a session number that import does not
   translate, so `--force` deletes other sessions' lessons.
3. `session-end.ts:112`: a session put off while a rebuild runs is to be captured by "the next
   unlocked SessionEnd", which ingests its own transcript only; until the user runs `abs ingest`, it is not.

## 6. Known limits of the code

Met while modelling, and excepted by the properties above or outside of them:

- `cadence-lock.ts:105-108`: staleness is judged and the file renamed in two calls; a
  slow stealer moves away the lock a peer has just recreated, and two cadences run.
- `write-lock.ts:81-88`: the same with three calls. "Two processes can't both believe they hold it" (64-68), but whoever
  finds the file stale, or gone, after its create has failed overwrites what is there by then: a second thief's lock, or a
  fresh one. The lock is advisory, so two servers rebuild, and the release of the first owner may leave the second unannounced.
- `cli.ts:1584-1591`: a project is set by writing the binding and then filing the stored session. A kill in between
  leaves the session under its old project; its next line would correct that, but a transcript that has ended gets none. A skip
  that is killed has deleted the session and not marked it (`session-binding.ts:106-108`), so that its next lines are stored again.
- `indexer.ts:305-311`: the overlay's rows and the list of its files are two transactions. After a kill in between, a file
  that is reverted before the next refresh keeps the rows of its edit under an index that says it is ready, although "a
  dirty-to-clean revert must not leave the overlay's stale symbols behind" (291-294). A commit stage that was cut by its
  budget and followed by a checkout back does the same.
- `indexer.ts:199`: the counts are three SELECTs, and another process may commit between two of them; a verdict taken then is
  wrong about a moment that is past, and the next start takes it again.
- `hooks/installer.ts:111-115`, `168-178` (and the other installers): a settings file that exists and cannot be read counts as
  missing: it gets no backup and is replaced. The self-heal at a server's start makes no backup at all. Backups of Claude Code,
  Gemini, Copilot and Codex are named by the millisecond and overwrite each other, which
  `opencode-plugin-installer.ts:31-36` says of Gemini's.
- `optimize/run.ts:232`: a row consolidated between generation and advance counts as
  curated out and is never offered.
- `memory-store.ts:1213`: the banner's anti-join and the cadence's selection read
  different session numbers of a lesson, and promote (`global.ts:96`) changes only one.
- `consolidate.ts:63`: the newest session whose distillation fails each time is selected again
  by every cadence, before the older ones.
- `ingest.ts:565-569`: a Copilot file is read again from its start when it is shorter than
  its position. One that was compacted and has grown past it before the next ingestion is read on from there.
- A line of which only the first half was written when it was read is skipped as malformed, and the
  position is behind it.
- `cli.ts:997` calls a purge a hard delete (so do the README and the handbook); the daily backup `memory.db.bak` stays beside the
  store.
- `applier.ts:193`: an edit between the check and the rename, or the rollback, is overwritten; two
  backups of one millisecond share their name.
- Codex: a managed block without its END marker is not removed, and the next installation's END makes the
  following uninstall strip what the user has between them. Gemini and Copilot: a settings file that
  cannot be parsed is replaced, after a backup. OpenCode: uninstall removes an MCP server of our name
  whoever wrote it.
- `sweep.ts:48`: claimed anchors that never resolve, as many as the limit, hide the later ones.
- The prompt hook cuts its hits before it annotates them, so that stale ones may take the place of fresh ones.
- `mcp list` is searched for our name as a substring.
- `kind-weight.ts:12-15`: the weight 2.5 lifts a curated fact over the best raw turn from the depths up to 90 of a
  pool; `memory_recall` with a limit of 19 to 50 has deeper ones.

## 7. Plan

Done: the modules of section 2, all of them under theorems. What is left, in this order:

1. `Applier` as a refinement of the step `Write` of `Optimize`, for one file; the capture by hooks (`Ingest` of `Hooks`)
   as the ingestion of `Capture`.
2. Branch scoping of recall and of the store's queries; the spend counters and the turn budget of
   the cadence.
3. Gemini's JSON transcripts as a parser of their own, and the walk over the transcript directories.
4. The tray's supervision of the UI server.

## 8. Not modelled, and why

- Prompts, phrasing, diff layout, banners, Markdown wording: text without state.
- Tree-sitter's parsing of source files, and Gemini's transcript format: what they yield (a symbol is there
  or not; entries with stable ids) is the input of `SymbolIndex` and `Capture`.
- SQLite, sqlite-vec, FTS5, git and the file system: taken at their word (a
  transaction is atomic, `wx` creates at most once, rename is atomic, a diff lists a rename by its destination).
- The knowledge graph of the UI and the browser client (`ui/graph.ts`, `ui/client/`): derived,
  read-only, presentation. The tray application: process start.
- Clocks other than the TTLs of the locks, the handles and the backup: steps happen in any order, which
  includes every timing.
